---- MODULE Spec2Model ----
(***************************************************************************)
(* State-machine model of the FCU hybrid-consensus ledger:                 *)
(*   core.py        Transaction, Block, Blockchain                         *)
(*   node.py        FCUNode, PoCMinerNode, FullNode                        *)
(*   network.py     PeerInfo, GossipProtocol, MemoryPool, NetworkSyncer    *)
(*   consensus.py   PoCDifficulty, PoSValidator, PoSConsensus              *)
(*   governance.py  Proposal, Treasury, GovernanceCouncil                  *)
(*                                                                         *)
(* Conventions.  sha256 is modelled as a collision-free digest: the digest *)
(* of a value is the tagged value itself, so two digests are equal exactly *)
(* when the digested contents are equal.  Python None is "None" in string  *)
(* fields and NoneNum in numeric fields.  Token amounts are whole FCU;     *)
(* block times are in hundredths of a second; peer reputations and the     *)
(* weights drawn from them are in hundredths.                              *)
(***************************************************************************)
EXTENDS Integers, Sequences, FiniteSets, TLC

VARIABLES
    \* ---- Blockchain (core.py) of the node
    chain,                  \* Blockchain.chain : sequence of blocks
    state,                  \* Blockchain.state : address -> balance
    pos_stakes,             \* Blockchain.pos_stakes : address -> sequence of PoSStake
    storage_pledges,        \* Blockchain.storage_pledges : address -> StoragePledge
    pending_transactions,   \* Blockchain.pending_transactions
    \* ---- FCUNode / PoCMinerNode (node.py) and its collaborators (network.py)
    pending_blocks,         \* MemoryPool.pending_blocks : hash -> block dict
    received_hashes,        \* MemoryPool.received_hashes
    message_history,        \* GossipProtocol.message_history
    message_queue,          \* GossipProtocol.message_queue
    block_times,            \* FCUNode.block_times
    mining_difficulty,      \* PoCMinerNode.mining_difficulty
    is_mining,              \* PoCMinerNode.is_mining
    total_blocks_mined,     \* PoCMiner.total_blocks_mined
    last_block_received,    \* FullNode.last_block_received
    \* ---- GovernanceCouncil (governance.py)
    council_members,        \* GovernanceCouncil.council_members
    proposals,              \* GovernanceCouncil.proposals : id -> Proposal
    proposal_counter,       \* GovernanceCouncil.proposal_counter
    reward_config,          \* GovernanceCouncil.reward_config
    treasury,               \* GovernanceCouncil.treasury
    parameter_history,      \* GovernanceCouncil.parameter_history
    \* ---- PoSConsensus (consensus.py)
    council,                \* PoSConsensus.council : the member ids (keys of the dict)
    pending_proposals,      \* PoSConsensus.pending_proposals : block hash -> proposal
    \* ---- PoSValidator (consensus.py)
    total_staked,           \* PoSValidator.total_staked
    slashing_count,         \* PoSValidator.slashing_count
    \* ---- peers, mempool and syncer of the node (node.py, network.py)
    connected_peers,        \* FCUNode.connected_peers : peer_id -> PeerInfo
    mempool_transactions,   \* MemoryPool.pending_transactions : tx_id -> tx dict
    max_size,               \* MemoryPool.max_size
    sync_in_progress,       \* NetworkSyncer.sync_in_progress
    last_sync_time,         \* NetworkSyncer.last_sync_time
    callers,                \* position of each thread calling into the syncer
    \* ---- threads inside GovernanceCouncil.vote_on_proposal
    voting,                 \* thread -> its position and the arguments of its call
    \* ---- PeerDiscovery (network.py)
    known_peers,            \* PeerDiscovery.known_peers : peer_id -> PeerInfo
    peer_index,             \* PeerDiscovery.peer_index : host:port -> peer_id
    \* ---- PoWLottery (consensus.py), one entry per lottery instance
    lottery,                \* instance -> [participants, winners]
    random_seed,            \* instance -> the last seed given to the generator of the
                            \* `random` module in the process that holds the instance
    \* ---- threads inside PoCMinerNode.mine_block
    mining,                 \* thread -> its position and the tip it read
    \* ---- a GossipProtocol built on its own with a max_history of the caller's
    network,                \* nodes relaying one another's messages: [history, accepted, wire, sent]
    gossip,                 \* NoInstance, or [max_history, message_history, message_queue, seen]
    \* ---- the wall clock read by time.time()
    now,
    \* ---- observation of the last call on the node (operation, inputs, result)
    lastCall,
    tamperedAt,             \* indices of stored blocks mutated after they were stored
    applied                 \* process_transactions calls made so far

ledgerVars == <<chain, state, pos_stakes, storage_pledges, pending_transactions>>
nodeVars == <<pending_blocks, received_hashes, message_history, message_queue,
              block_times, mining_difficulty, is_mining, total_blocks_mined,
              last_block_received>>
govVars == <<council_members, proposals, proposal_counter, reward_config, treasury,
             parameter_history>>
posVars == <<council, pending_proposals>>
validatorVars == <<total_staked, slashing_count>>
peerVars == <<connected_peers>>
poolVars == <<mempool_transactions, max_size>>
syncVars == <<sync_in_progress, last_sync_time, callers>>
lotteryVars == <<lottery, random_seed>>
discoveryVars == <<known_peers, peer_index>>
voteVars == <<voting>>
minerVars == <<mining>>
gossipVars == <<gossip>>
networkVars == <<network>>
otherVars == <<minerVars, gossipVars, networkVars>>
extraVars == <<lotteryVars, discoveryVars, voteVars, otherVars>>
restVars == <<validatorVars, peerVars, poolVars, syncVars, extraVars>>
vars == <<ledgerVars, nodeVars, govVars, posVars, restVars, now, lastCall, tamperedAt,
          applied>>

----------------------------------------------------------------------------
\* Bounds of the exploration
MaxChain == 3          \* blocks in the chain, genesis included
MaxTime  == 2          \* ticks of the wall clock
MaxBatch == 2          \* transactions in one process_transactions call
MaxApplied == 2        \* process_transactions calls in one run
MaxPending == 2        \* length of the ledger's pending list before a block is applied
MaxPool == 2           \* blocks in the mempool
MaxMined == 80         \* blocks of a miner that keeps mining
MaxSamples == 3        \* block times handed to a direct difficulty calculation
MaxCalculations == 1   \* direct difficulty calculations in one run
MaxEntries == 1        \* cumulative entries up to which a participant is issued tickets
MaxDraws == 2          \* wins on record in one lottery
MaxUpdates == 3     \* reputation updates on record for one peer
NetMaxHistory == 1  \* hashes the history of a node of the network holds
MaxSeen == 4        \* hashes given to the history of a GossipProtocol built on its own
MaxPairDraws == 1      \* wins on record in each of two lotteries side by side
MaxProposals == 1      \* create_proposal calls in one run
MaxPeers == 6           \* peers a node knows of
MaxSelections == 1      \* select_propagation_targets calls made on their own in one run
MaxSlashes == 4         \* apply_slashing calls in one run
MaxAllocations == 1    \* successful allocate_funds calls in one run

NoneNum == -1

\* Program constants
GenesisAmount == 1000000
GenesisDifficulty == 1
INITIAL_DIFFICULTY == 4
TARGET_BLOCK_TIME == 2250
DIFFICULTY_ADJUSTMENT_BLOCKS == 50
MaxDifficulty == 32
MinDifficulty == 1
MineTimeout == 3000
DefaultTtl == 64
max_history == 1000
DefaultCapacity == 32
MaxCouncil == 5
MinApproval == 3
DefaultVotingPeriod == 1   \* the default 24 h, in ticks of the wall clock
DefaultMaxSize == 10000
PeerTimeout == 300         \* seconds
TickSeconds == 86400       \* one tick of the wall clock, in seconds
max_fanout == 5

----------------------------------------------------------------------------
\* Generic helpers

Range(s) == {s[i] : i \in DOMAIN s}

RECURSIVE SumSeq(_)
SumSeq(s) == IF s = <<>> THEN 0 ELSE Head(s) + SumSeq(Tail(s))

\* sorted(list): the order-free content of a list, each element with its count
Sorted(s) == [x \in Range(s) |-> Cardinality({i \in DOMAIN s : s[i] = x})]

\* hashlib.sha256(...).hexdigest() of a value of the given kind
Sha256(kind, content) == <<kind, content>>

\* dict.get(key, default) on an account table
Get(table, key, default) == IF key \in DOMAIN table THEN table[key] ELSE default

\* dict[key] = value
Put(table, key, value) ==
    [k \in DOMAIN table \cup {key} |-> IF k = key THEN value ELSE table[k]]

----------------------------------------------------------------------------
\* core.py : Transaction

TRANSFER == "transfer"
STAKE_DEPOSIT == "stake_deposit"
STAKE_WITHDRAW == "stake_withdraw"
STORAGE_PLEDGE == "storage_pledge"
STORAGE_REVOKE == "storage_revoke"
GOVERNANCE_VOTE == "governance_vote"

Transaction(id, ts, s, r, a, type, d) ==
    [tx_id |-> id, timestamp |-> ts, sender |-> s, receiver |-> r, amount |-> a,
     tx_type |-> type, nonce |-> 0, signature |-> "None", data |-> d]

\* the data map of a transaction: capacity_gb is NoneNum when the key is absent
NoData == [note |-> "None", capacity_gb |-> NoneNum, proof_hash |-> "None"]

create_genesis_tx(ts) ==
    Transaction("GENESIS_SIMCOIN", ts, "SYSTEM", "FCU_TREASURY", GenesisAmount, TRANSFER,
                [NoData EXCEPT !.note = "Genesis - Simcoin donation to FCU Treasury"])

\* Transaction.hash: digest of the canonical (sorted-key) form of every field
TxHash(tx) == Sha256("tx", tx)

----------------------------------------------------------------------------
\* core.py : Block

\* one level of the merkle tree: duplicate the last hash on odd counts, pair up
MerkleLevel(hs) ==
    LET padded == IF Len(hs) % 2 # 0 THEN Append(hs, hs[Len(hs)]) ELSE hs
    IN  [i \in 1..(Len(padded) \div 2) |->
            Sha256("pair", <<padded[2 * i - 1], padded[2 * i]>>)]

RECURSIVE MerkleReduce(_)
MerkleReduce(hs) == IF Len(hs) > 1 THEN MerkleReduce(MerkleLevel(hs)) ELSE hs[1]

calculate_merkle_root(transactions) ==
    IF transactions = <<>> THEN Sha256("empty", "")
    ELSE MerkleReduce([i \in DOMAIN transactions |-> TxHash(transactions[i])])

\* Block.calculate_hash: the digest covers the STORED merkle_root, not the
\* transactions, and not pow_lottery_winner
calculate_hash(b) ==
    Sha256("block",
           [index |-> b.index, previous_hash |-> b.previous_hash,
            timestamp |-> b.timestamp, merkle_root |-> b.merkle_root,
            miner |-> b.miner, validators |-> Sorted(b.validators),
            poc_difficulty |-> b.poc_difficulty, nonce |-> b.nonce,
            state_root |-> b.state_root])

\* Block.__init__ with merkle_root and state_root left to their defaults
Block(index, previous_hash, timestamp, transactions, miner, validators, difficulty, nonce) ==
    LET b == [index |-> index, previous_hash |-> previous_hash,
              timestamp |-> timestamp, transactions |-> transactions,
              miner |-> miner, validators |-> validators,
              poc_difficulty |-> difficulty, pow_lottery_winner |-> "None",
              nonce |-> nonce,
              merkle_root |-> calculate_merkle_root(transactions),
              state_root |-> "None"]
    IN  [index |-> b.index, previous_hash |-> b.previous_hash,
         timestamp |-> b.timestamp, transactions |-> b.transactions,
         miner |-> b.miner, validators |-> b.validators,
         poc_difficulty |-> b.poc_difficulty,
         pow_lottery_winner |-> b.pow_lottery_winner, nonce |-> b.nonce,
         merkle_root |-> b.merkle_root, state_root |-> b.state_root,
         hash |-> calculate_hash(b)]

----------------------------------------------------------------------------
\* core.py : Blockchain

GenesisBlock(ts) ==
    Block(0, <<"0">>, ts, <<create_genesis_tx(ts)>>, "GENESIS_SYSTEM",
          <<"GENESIS_SYSTEM">>, GenesisDifficulty, 0)

get_latest_block(c) == c[Len(c)]

get_balance(st, address) == Get(st, address, 0)

\* Blockchain.validate_chain: walks i = 1 .. len-1 (0-based), never block 0
validate_chain(c) ==
    \A i \in 2..Len(c) :
        /\ c[i].hash = calculate_hash(c[i])
        /\ c[i].previous_hash = c[i - 1].hash

PoSStake(validator, amount, ts) ==
    [validator |-> validator, amount |-> amount, lock_time |-> 0, timestamp |-> ts,
     delegated_from |-> "None", is_active |-> TRUE]

StoragePledge(pledger, capacity_gb, proof_hash, ts) ==
    [pledger |-> pledger, capacity_gb |-> capacity_gb, timestamp |-> ts,
     proof_hash |-> proof_hash, challenge_response |-> "None", is_active |-> TRUE]

\* the three tables process_transactions writes
Ledger(st, stakes, pledges) == [state |-> st, pos_stakes |-> stakes, storage_pledges |-> pledges]

\* the TRANSFER branch of process_transactions: sender first, then receiver
\* (the receiver's balance is read after the sender's was written)
TransferNoCheck(st, tx) ==
    LET sender_bal == Get(st, tx.sender, 0)
        debited == Put(st, tx.sender, sender_bal - tx.amount)
    IN  Put(debited, tx.receiver, Get(debited, tx.receiver, 0) + tx.amount)

\* the receiver's balance read before the sender's was written
TransferStaleReceiver(st, tx) ==
    LET sender_bal == Get(st, tx.sender, 0)
    IN  IF sender_bal >= tx.amount
        THEN Put(Put(st, tx.sender, sender_bal - tx.amount),
                 tx.receiver, Get(st, tx.receiver, 0) + tx.amount)
        ELSE st

ApplyTransfer(st, tx) ==
    LET sender_bal == Get(st, tx.sender, 0)
    IN  IF sender_bal >= tx.amount
        THEN LET debited == Put(st, tx.sender, sender_bal - tx.amount)
             IN  Put(debited, tx.receiver, Get(debited, tx.receiver, 0) + tx.amount)
        ELSE st

\* one iteration of the loop of process_transactions
ApplyTransaction(L, tx, ts) ==
    IF tx.tx_type = TRANSFER
    THEN [L EXCEPT !.state = ApplyTransfer(L.state, tx)]
    ELSE IF tx.tx_type = STAKE_DEPOSIT
    THEN [L EXCEPT
            !.pos_stakes = Put(L.pos_stakes, tx.sender,
                               Append(Get(L.pos_stakes, tx.sender, <<>>),
                                      PoSStake(tx.sender, tx.amount, ts))),
            !.state = Put(L.state, tx.sender, Get(L.state, tx.sender, 0) - tx.amount)]
    ELSE IF tx.tx_type = STORAGE_PLEDGE
    THEN [L EXCEPT
            !.storage_pledges =
                Put(L.storage_pledges, tx.sender,
                    StoragePledge(tx.sender,
                                  IF tx.data.capacity_gb = NoneNum THEN DefaultCapacity
                                  ELSE tx.data.capacity_gb,
                                  tx.data.proof_hash, ts))]
    ELSE L

\* Blockchain.process_transactions: the transactions applied in list order
RECURSIVE process_transactions(_, _, _)
process_transactions(L, transactions, ts) ==
    IF transactions = <<>> THEN L
    ELSE process_transactions(ApplyTransaction(L, Head(transactions), ts),
                              Tail(transactions), ts)

\* Blockchain.add_transaction: admission to the ledger's pending list
AddTransactionAdmits(st, tx) == get_balance(st, tx.sender) >= tx.amount

----------------------------------------------------------------------------
\* network.py : Message, GossipProtocol, MemoryPool

BLOCK_ANNOUNCE == "block_announce"

Message(message_id, message_type, sender_id, ts, payload) ==
    [message_id |-> message_id, message_type |-> message_type, sender_id |-> sender_id,
     timestamp |-> ts, payload |-> payload, ttl |-> DefaultTtl]

\* Message.hash: the dedup key leaves out message_id and ttl
MessageHash(m) ==
    Sha256("msg", [sender_id |-> m.sender_id, message_type |-> m.message_type,
                   timestamp |-> m.timestamp,
                   payload_hash |-> Sha256("payload", m.payload)])

should_propagate(history, m) == MessageHash(m) \notin history /\ m.ttl > 0

\* GossipProtocol.add_to_history: the histories the call can leave.  Above
\* max_history the set is cut to max_history elements in the iteration order of
\* a Python set, which the program does not control.
add_to_history_within(history, m, limit) ==
    LET grown == history \cup {MessageHash(m)}
    IN  IF Cardinality(grown) > limit
        THEN {kept \in SUBSET grown : Cardinality(kept) = limit}
        ELSE {grown}

\* with the default max_history of the node's GossipProtocol()
add_to_history(history, m) == add_to_history_within(history, m, max_history)

----------------------------------------------------------------------------
\* network.py : PeerInfo and GossipProtocol.select_propagation_targets

\* every node listens on 127.0.0.1, each on a port of its own
PeerPorts ==
    [Peer_1 |-> 8001, Peer_2 |-> 8002, Peer_3 |-> 8003, Peer_4 |-> 8004,
     Peer_5 |-> 8005, Peer_6 |-> 8006, Peer_7 |-> 8007, Peer_8 |-> 8008]

PeerInfo(peer_id, reputation, last_seen) ==
    [peer_id |-> peer_id, host |-> "127.0.0.1", port |-> PeerPorts[peer_id],
     reputation |-> reputation, last_seen |-> last_seen,
     blocks_shared |-> 0, failed_messages |-> 0]

\* the key f"{host}:{port}" of the address index; with an integer port the
\* text after the last colon is the port, so two keys are equal exactly when
\* host and port both are
AddressKey(peer_info) == <<peer_info.host, peer_info.port>>

\* PeerDiscovery.add_peer: the entry is stored whether or not the id is known
add_peer(known, peer_info) == Put(known, peer_info.peer_id, peer_info)

\* PeerDiscovery.add_peer: the address index after the call, written only
\* for an id that was not known
add_peer_index(index, known, peer_info) ==
    IF peer_info.peer_id \notin DOMAIN known
    THEN Put(index, AddressKey(peer_info), peer_info.peer_id)
    ELSE index

\* PeerDiscovery.remove_peer: the address index after the call
remove_peer_index(index, known, peer_id) ==
    IF peer_id \notin DOMAIN known THEN index
    ELSE [key \in DOMAIN index \ {AddressKey(known[peer_id])} |-> index[key]]

\* PeerDiscovery.remove_peer: the registry after the call
remove_peer(known, peer_id) == [id \in DOMAIN known \ {peer_id} |-> known[id]]

\* the failure branch without the lower limit
update_without_floor(known, peer_id, success, t) ==
    IF peer_id \notin DOMAIN known THEN known
    ELSE IF success
    THEN [known EXCEPT
            ![peer_id].reputation = IF @ + 5 < 100 THEN @ + 5 ELSE 100,
            ![peer_id].blocks_shared = @ + 1,
            ![peer_id].last_seen = t]
    ELSE [known EXCEPT
            ![peer_id].reputation = @ - 10,
            ![peer_id].failed_messages = @ + 1,
            ![peer_id].last_seen = t]

\* PeerDiscovery.update_peer_reputation at time t: min(1.0, r + 0.05) on
\* success, max(0.0, r - 0.1) on failure
update_peer_reputation(known, peer_id, success, t) ==
    IF peer_id \notin DOMAIN known THEN known
    ELSE IF success
    THEN [known EXCEPT
            ![peer_id].reputation = IF @ + 5 < 100 THEN @ + 5 ELSE 100,
            ![peer_id].blocks_shared = @ + 1,
            ![peer_id].last_seen = t]
    ELSE [known EXCEPT
            ![peer_id].reputation = IF @ - 10 > 0 THEN @ - 10 ELSE 0,
            ![peer_id].failed_messages = @ + 1,
            ![peer_id].last_seen = t]

\* PeerInfo.is_alive() at time t
is_alive(peer, t) == (t - peer.last_seen) * TickSeconds < PeerTimeout

\* max(0.1, p.reputation), in hundredths
Weight(peer) == IF peer.reputation > 10 THEN peer.reputation ELSE 10

\* [p for p in available_peers if p.peer_id != exclude_peer]
WithoutPeer(peers, exclude_peer) ==
    SelectSeq(peers, LAMBDA peer : peer.peer_id # exclude_peer)

\* list.remove(x): the list without the first element equal to x
ListRemove(list, x) ==
    LET first == CHOOSE i \in 1..Len(list) :
                    list[i] = x /\ \A j \in 1..(i - 1) : list[j] # x
    IN  [i \in 1..(Len(list) - 1) |-> IF i < first THEN list[i] ELSE list[i + 1]]

\* the inner loop: the first position whose cumulative weight reaches rand, 0
\* when the loop ends without a break
PickIndex(weights, rand) ==
    LET hits == {i \in 1..Len(weights) : rand <= SumSeq(SubSeq(weights, 1, i))}
    IN  IF hits = {} THEN 0 ELSE CHOOSE i \in hits : \A j \in hits : i <= j

\* the outer loop of select_propagation_targets from its k-th last iteration:
\* every run it can take, as the sequence of (pick, targets, weights) left by
\* each iteration; rand = random.uniform(0, total_weight)
RECURSIVE SelectionRuns(_, _, _, _)
SelectionRuns(targets, weights, total_weight, k) ==
    IF k = 0 THEN {<<>>}
    ELSE UNION {
        IF i = 0
        THEN {<<[picked |-> "None", targets |-> targets, weights |-> weights]>> \o rest :
                rest \in SelectionRuns(targets, weights, total_weight, k - 1)}
        ELSE LET targets_left == ListRemove(targets, targets[i])
                 weights_left == ListRemove(weights, weights[i])
             IN  {<<[picked |-> targets[i].peer_id, targets |-> targets_left,
                     weights |-> weights_left]>> \o rest :
                    rest \in SelectionRuns(targets_left, weights_left,
                                           total_weight - weights[i], k - 1)}
        : i \in {PickIndex(weights, rand) : rand \in 0..total_weight}}

\* GossipProtocol.select_propagation_targets(available_peers, exclude_peer):
\* the runs it can take (the weights are at least 0.1 each, so their total is
\* never 0 for a non-empty list)
select_propagation_targets(available_peers, exclude_peer) ==
    LET targets == WithoutPeer(available_peers, exclude_peer)
        weights == [i \in 1..Len(targets) |-> Weight(targets[i])]
    IN  IF targets = <<>> THEN {<<>>}
        ELSE SelectionRuns(targets, weights, SumSeq(weights),
                           IF max_fanout < Len(targets) THEN max_fanout ELSE Len(targets))

\* the list select_propagation_targets returns after a run
Selected(run) ==
    LET picks == SelectSeq(run, LAMBDA step : step.picked # "None")
    IN  [i \in 1..Len(picks) |-> picks[i].picked]

----------------------------------------------------------------------------
\* consensus.py : PoCDifficulty

\* the calculation without its upper limit
calculate_uncapped(current_difficulty, actual_block_times) ==
    IF Len(actual_block_times) < 2 THEN current_difficulty
    ELSE IF 10 * SumSeq(actual_block_times)
                < 8 * TARGET_BLOCK_TIME * Len(actual_block_times)
    THEN current_difficulty + 1
    ELSE IF 10 * SumSeq(actual_block_times)
                > 12 * TARGET_BLOCK_TIME * Len(actual_block_times)
    THEN IF current_difficulty - 1 > MinDifficulty THEN current_difficulty - 1
         ELSE MinDifficulty
    ELSE current_difficulty

\* PoCDifficulty.calculate_new_difficulty; the mean is compared with 0.8 and
\* 1.2 times the target without dividing
calculate_new_difficulty(current_difficulty, actual_block_times) ==
    IF Len(actual_block_times) < 2 THEN current_difficulty
    ELSE IF 10 * SumSeq(actual_block_times)
                < 8 * TARGET_BLOCK_TIME * Len(actual_block_times)
    THEN IF current_difficulty + 1 < MaxDifficulty THEN current_difficulty + 1
         ELSE MaxDifficulty
    ELSE IF 10 * SumSeq(actual_block_times)
                > 12 * TARGET_BLOCK_TIME * Len(actual_block_times)
    THEN IF current_difficulty - 1 > MinDifficulty THEN current_difficulty - 1
         ELSE MinDifficulty
    ELSE current_difficulty

\* PoCMinerNode.update_mining_difficulty, given block_times after the append
update_mining_difficulty(difficulty, times) ==
    IF Len(times) >= DIFFICULTY_ADJUSTMENT_BLOCKS
    THEN calculate_new_difficulty(
            difficulty,
            SubSeq(times, Len(times) - DIFFICULTY_ADJUSTMENT_BLOCKS + 1, Len(times)))
    ELSE difficulty

----------------------------------------------------------------------------
\* node.py : the block PoCMinerNode.mine_block builds on the current tip

NODE_ID == "Miner_1"
Callers == {"thread_1", "thread_2", "thread_3"}

MinedBlockOnGrandparent(latest_block, ts, difficulty, nonce) ==
    Block(latest_block.index + 1, latest_block.previous_hash, ts, <<>>, NODE_ID, <<>>,
          difficulty, nonce)

\* a block that repeats the height of the tip
MinedBlockAtTipHeight(latest_block, ts, difficulty, nonce) ==
    Block(latest_block.index, latest_block.hash, ts, <<>>, NODE_ID, <<>>,
          difficulty, nonce)

MinedBlock(latest_block, ts, difficulty, nonce) ==
    Block(latest_block.index + 1, latest_block.hash, ts, <<>>, NODE_ID, <<>>,
          difficulty, nonce)

----------------------------------------------------------------------------
\* Inputs

TREASURY == "FCU_TREASURY"

\* transfers offered to the ledger: treasury and Farmer_A pay, the farmers
\* receive (Farmer_A also pays itself); amounts are whole FCU, never negative
Amounts == {0, 500000, 600000}

TransferTxs ==
    {Transaction("tx", 0, s, r, a, TRANSFER, NoData) :
        s \in {TREASURY, "Farmer_A"}, r \in {"Farmer_A", "Farmer_B"}, a \in Amounts}

StakeTxs ==
    {Transaction("tx", 0, s, s, a, STAKE_DEPOSIT, NoData) :
        s \in {TREASURY, "Farmer_A"}, a \in {500000, 600000}}

PledgeTxs ==
    {Transaction("tx", 0, "Farmer_A", "Farmer_A", 0, STORAGE_PLEDGE,
                 [NoData EXCEPT !.capacity_gb = c]) : c \in {NoneNum, 10, 512}}

OtherTxs ==
    {Transaction("tx", 0, TREASURY, "Farmer_A", 500000, t, NoData) :
        t \in {STAKE_WITHDRAW, STORAGE_REVOKE, GOVERNANCE_VOTE}}

AnyTxs ==
    {tx \in TransferTxs : tx.amount # 0 /\ tx.sender # tx.receiver}
        \cup StakeTxs \cup PledgeTxs \cup OtherTxs

Batches(Txs) == UNION {[1..n -> Txs] : n \in 0..MaxBatch}

----------------------------------------------------------------------------
\* governance.py : Proposal, RewardConfiguration, Treasury

REWARD_ADJUSTMENT == "reward_adjustment"
DIFFICULTY_TUNING == "difficulty_tuning"
PARAMETER_CHANGE == "parameter_change"
TREASURY_SPENDING == "treasury_spending"
VALIDATOR_REMOVAL == "validator_removal"
STORAGE_REQUIREMENT == "storage_requirement"

PROPOSED == "proposed"
VOTING == "voting"
APPROVED == "approved"
REJECTED == "rejected"
EXECUTED == "executed"
EXPIRED == "expired"

TREASURER_ID == "Treasurer_Alice"

\* f"PROP_{proposal_counter:06d}"
ProposalId(n) == <<"PROP_", n>>

is_voting_active_ignoring_deadline(proposal, t) == proposal.status = VOTING

\* Proposal.is_voting_active
is_voting_active(proposal, t) == t < proposal.voting_deadline /\ proposal.status = VOTING

\* Proposal.get_vote_count
YesVotes(proposal) == Cardinality({v \in DOMAIN proposal.votes : proposal.votes[v]})
NoVotes(proposal) == Cardinality({v \in DOMAIN proposal.votes : ~proposal.votes[v]})

is_approved_strictly_more(proposal, min_approval) == YesVotes(proposal) > min_approval

\* Proposal.is_approved
is_approved(proposal, min_approval) == YesVotes(proposal) >= min_approval

\* RewardConfiguration(), rewards in hundredths of FCU
InitialRewards ==
    [poc_miner_reward |-> 1000, pos_validator_reward |-> 500, pow_lottery_reward |-> 200,
     storage_reward_per_gb |-> 10, base_transaction_fee |-> 1, timestamp |-> 0,
     activated_block |-> 0]

RewardFields == DOMAIN InitialRewards

\* GovernanceCouncil._apply_reward_changes: setattr for every key the
\* configuration has
apply_reward_changes(config, changes) ==
    [f \in RewardFields |-> IF f \in DOMAIN changes THEN changes[f] ELSE config[f]]

\* Treasury()
InitialTreasury ==
    [balance |-> GenesisAmount, allocations |-> <<>>, spending_history |-> <<>>,
     transactions |-> <<>>]

\* Treasury.allocate_funds
allocate_funds(t, purpose, amount, ts) ==
    IF amount > t.balance THEN t
    ELSE [t EXCEPT
            !.allocations = Put(t.allocations, purpose, Get(t.allocations, purpose, 0) + amount),
            !.balance = t.balance - amount,
            !.transactions = Append(t.transactions,
                [type |-> "allocation", purpose |-> purpose, amount |-> amount,
                 recipient |-> "None", timestamp |-> ts])]

\* a spending that debits whatever is allocated
spend_unchecked(t, purpose, amount, recipient, ts) ==
    [t EXCEPT !.allocations = Put(t.allocations, purpose,
                                  Get(t.allocations, purpose, 0) - amount)]

\* Treasury.spend_from_allocation
spend_from_allocation(t, purpose, amount, recipient, ts) ==
    IF purpose \notin DOMAIN t.allocations \/ t.allocations[purpose] < amount THEN t
    ELSE [t EXCEPT
            !.allocations = Put(t.allocations, purpose, t.allocations[purpose] - amount),
            !.spending_history = Append(t.spending_history,
                [purpose |-> purpose, amount |-> amount, recipient |-> recipient,
                 timestamp |-> ts]),
            !.transactions = Append(t.transactions,
                [type |-> "spending", purpose |-> purpose, amount |-> amount,
                 recipient |-> recipient, timestamp |-> ts])]

\* GovernanceCouncil._apply_treasury_spending: a missing key of the change map
\* is "None" (recipient, purpose) or NoneNum (amount)
apply_treasury_spending(t, changes, ts) ==
    LET purpose == IF changes.purpose = "None" THEN "governance_approved"
                   ELSE changes.purpose
    IN  IF changes.recipient \notin {"None", ""} /\ changes.amount \notin {NoneNum, 0}
        THEN spend_from_allocation(t, purpose, changes.amount, changes.recipient, ts)
        ELSE t

\* the governance state _execute_proposal writes besides the proposal itself
Gov(config, t, history) ==
    [reward_config |-> config, treasury |-> t, parameter_history |-> history]

\* GovernanceCouncil._execute_proposal, up to the status change
execute_proposal(G, proposal, ts) ==
    IF proposal.proposal_type = REWARD_ADJUSTMENT
    THEN [G EXCEPT
            !.reward_config = apply_reward_changes(G.reward_config, proposal.proposed_changes),
            !.parameter_history = Append(G.parameter_history,
                [type |-> "reward_adjustment", changes |-> proposal.proposed_changes,
                 timestamp |-> ts])]
    ELSE IF proposal.proposal_type = TREASURY_SPENDING
    THEN [G EXCEPT
            !.treasury = apply_treasury_spending(G.treasury, proposal.proposed_changes, ts)]
    ELSE IF proposal.proposal_type = PARAMETER_CHANGE
    THEN [G EXCEPT
            !.parameter_history = Append(G.parameter_history,
                [type |-> "parameter_change", changes |-> proposal.proposed_changes,
                 timestamp |-> ts])]
    ELSE G

\* what create_proposal is asked for: a type and its change map
ProposalInputs ==
    {[proposal_type |-> REWARD_ADJUSTMENT,
      proposed_changes |-> [poc_miner_reward |-> 2000, block_bonus |-> 7]],
     [proposal_type |-> TREASURY_SPENDING,
      proposed_changes |-> [recipient |-> "Farmer_A", amount |-> 300, purpose |-> "grants"]],
     [proposal_type |-> PARAMETER_CHANGE,
      proposed_changes |-> [max_block_size |-> 2]],
     [proposal_type |-> VALIDATOR_REMOVAL,
      proposed_changes |-> [validator |-> "Council_1"]]}

\* treasury_spending change maps without a recipient, without a purpose
IncompleteSpending ==
    {[proposal_type |-> TREASURY_SPENDING,
      proposed_changes |-> [recipient |-> "None", amount |-> 300, purpose |-> "grants"]],
     [proposal_type |-> TREASURY_SPENDING,
      proposed_changes |-> [recipient |-> "Farmer_A", amount |-> 300, purpose |-> "None"]]}

\* the members a council may be constructed from; the constructor keeps five
CouncilCandidates ==
    <<"Council_1", "Council_2", "Council_3", "Council_4", "Council_5", "Council_6">>

Voters == Range(CouncilCandidates) \cup {TREASURER_ID, "Stranger"}

AllocationAmounts == {100, 300, 2000000}

----------------------------------------------------------------------------
\* Initial state: a freshly constructed node

NoCall == [op |-> "none"]

\* GovernanceCouncil(treasurer_id, council_members)
GovernanceCouncil(given) ==
    /\ council_members = SubSeq(given, 1, IF Len(given) < MaxCouncil THEN Len(given)
                                          ELSE MaxCouncil)
    /\ proposals = <<>>
    /\ proposal_counter = 0
    /\ reward_config = InitialRewards
    /\ treasury = InitialTreasury
    /\ parameter_history = <<>>

\* a council that admits members without counting them
add_council_member_unbounded(members, member_id) == members \cup {member_id}

\* PoSConsensus.add_council_member(member_id, validator): the council after
\* the call (unchanged when the call returns False)
add_council_member(members, member_id) ==
    IF Cardinality(members) >= MaxCouncil THEN members
    ELSE IF member_id \notin members THEN members \cup {member_id}
    ELSE members

\* PoSConsensus.remove_council_member(member_id): the council after the call
remove_council_member(members, member_id) ==
    IF member_id \in members THEN members \ {member_id} ELSE members

RECURSIVE AddCouncilMembers(_, _)
AddCouncilMembers(members, given) ==
    IF given = <<>> THEN members
    ELSE AddCouncilMembers(add_council_member(members, Head(given)), Tail(given))

\* PoSConsensus(treasurer), then one add_council_member call per given member
PoSConsensus(given) ==
    /\ council = AddCouncilMembers({}, given)
    /\ pending_proposals = <<>>

\* MemoryPool(max_size)
MemoryPool(size) ==
    /\ max_size = size
    /\ mempool_transactions = <<>>
    /\ pending_blocks = <<>>
    /\ received_hashes = {}

\* PoSValidator(validator_id, role), with the stake its node credits it
PoSValidator(initial_stake) ==
    /\ total_staked = initial_stake
    /\ slashing_count = 0

\* NetworkSyncer(), no thread inside start_sync
NetworkSyncer ==
    /\ sync_in_progress = FALSE
    /\ last_sync_time = 0
    /\ callers = [c \in Callers |-> "idle"]

\* PoWLottery(), for each of the instances; participants is the dict as the
\* list of its entries in insertion order
Lotteries == {"lottery_1", "lottery_2"}

\* the seed the `random` module takes from the operating system at import
OsEntropy == <<"os_entropy">>

PoWLottery ==
    /\ lottery = [l \in Lotteries |-> [participants |-> <<>>, winners |-> <<>>]]
    /\ random_seed = [l \in Lotteries |-> OsEntropy]

\* no thread is inside vote_on_proposal
VoteCallers == {"thread_1", "thread_2"}

NoVoteInFlight == voting = [c \in VoteCallers |-> [pc |-> "idle"]]

\* PeerDiscovery()
PeerDiscovery == known_peers = <<>> /\ peer_index = <<>>

\* no thread is inside mine_block
MineCallers == {"thread_1", "thread_2"}

NoMiningInFlight == mining = [c \in MineCallers |-> [pc |-> "idle"]]

\* the nodes of a network, each connected to the two others; nothing sent yet
NetNodes == {"Node_A", "Node_B", "Node_C"}

QuietNetwork ==
    network = [history |-> [n \in NetNodes |-> {}],
               accepted |-> [n \in NetNodes |-> <<>>],
               wire |-> {}, sent |-> {}]

\* no GossipProtocol besides the node's own
NoInstance == [instance |-> "None"]

NoGossipProtocol == gossip = NoInstance

\* the node without its mempool and validator
NodeCore ==
    /\ now = 0
    /\ PeerDiscovery
    /\ NoVoteInFlight
    /\ NoMiningInFlight
    /\ NoGossipProtocol
    /\ QuietNetwork
    /\ PoWLottery
    /\ chain = <<GenesisBlock(0)>>
    /\ state = [a \in {TREASURY} |-> GenesisAmount]
    /\ pos_stakes = <<>>
    /\ storage_pledges = <<>>
    /\ pending_transactions = <<>>
    /\ connected_peers = <<>>
    /\ NetworkSyncer
    /\ message_history = {}
    /\ message_queue = <<>>
    /\ block_times = <<>>
    /\ mining_difficulty = INITIAL_DIFFICULTY
    /\ is_mining = FALSE
    /\ total_blocks_mined = 0
    /\ last_block_received = 0
    /\ lastCall = NoCall
    /\ tamperedAt = {}
    /\ applied = 0

NodeInit == NodeCore /\ MemoryPool(DefaultMaxSize) /\ PoSValidator(0)

Init ==
    /\ NodeInit
    /\ GovernanceCouncil(SubSeq(CouncilCandidates, 1, MaxCouncil))
    /\ PoSConsensus(SubSeq(CouncilCandidates, 1, MaxCouncil))

\* a council constructed from any number of the candidates
InitGov ==
    /\ NodeInit
    /\ \E n \in 0..Len(CouncilCandidates) :
        /\ GovernanceCouncil(SubSeq(CouncilCandidates, 1, n))
        /\ PoSConsensus(SubSeq(CouncilCandidates, 1, n))

\* time.time() moves on between calls
Tick ==
    /\ now < MaxTime
    /\ now' = now + 1
    /\ UNCHANGED <<ledgerVars, nodeVars, lastCall, tamperedAt, applied, govVars, posVars,
                   restVars>>

----------------------------------------------------------------------------
\* Blockchain.process_transactions(transactions), transactions drawn from Txs

ProcessTransactions(Txs) ==
    /\ applied < MaxApplied
    /\ \E transactions \in Batches(Txs) :
        LET L == process_transactions(Ledger(state, pos_stakes, storage_pledges),
                                      transactions, now)
        IN  /\ state' = L.state
            /\ pos_stakes' = L.pos_stakes
            /\ storage_pledges' = L.storage_pledges
            /\ lastCall' = [op |-> "process_transactions", transactions |-> transactions]
    /\ applied' = applied + 1
    /\ UNCHANGED <<chain, pending_transactions, nodeVars, now, tamperedAt, govVars,
                   posVars, restVars>>

ProcessTransfers == ProcessTransactions(TransferTxs)

ProcessAnyTransactions == ProcessTransactions(AnyTxs)

----------------------------------------------------------------------------
\* FCUNode.broadcast_message(message): gossip.add_message, then the choice of
\* targets, which changes no state of the node

BroadcastMessage(m) ==
    IF should_propagate(message_history, m)
    THEN /\ message_queue' = Append(message_queue, m)
         /\ message_history' \in add_to_history(message_history, m)
    ELSE UNCHANGED <<message_queue, message_history>>

----------------------------------------------------------------------------
\* PoCMinerNode.mine_block

\* what PoCMiner.mine_block can report: the first valid nonce and the time the
\* search took (below the 30 s timeout), modelled as a choice
Nonces == {0, 1}
MineTimes == {t \in {1125, 2250, 2900} : t < MineTimeout}

\* mine_block when the search succeeds, for a chain below max_len blocks, a
\* nonce among nonces_found and a search time among times_taken
MineBlockWithin(max_len, nonces_found, times_taken) ==
    /\ ~is_mining
    /\ Len(chain) < max_len
    /\ \E nonce \in nonces_found, mine_time \in times_taken :
        LET latest_block == get_latest_block(chain)
            new_block == MinedBlock(latest_block, now, mining_difficulty, nonce)
            times == Append(block_times, mine_time)
        IN  /\ total_blocks_mined' = total_blocks_mined + 1
            /\ block_times' = times
            /\ chain' = Append(chain, new_block)
            /\ mining_difficulty' = update_mining_difficulty(mining_difficulty, times)
            /\ BroadcastMessage(Message(<<"blk_", new_block.hash>>, BLOCK_ANNOUNCE,
                                        NODE_ID, now, new_block))
            /\ lastCall' = [op |-> "mine_block", result |-> "block"]
    /\ is_mining' = FALSE
    /\ UNCHANGED <<state, pos_stakes, storage_pledges, pending_transactions,
                   pending_blocks, received_hashes, last_block_received, now,
                   tamperedAt, applied, govVars, posVars,
                   restVars>>

MineBlockFound == MineBlockWithin(MaxChain, Nonces, MineTimes)

\* the search ran into its timeout: no block, nothing changed but the flag,
\* which the finally clause resets
MineBlockTimeout ==
    /\ ~is_mining
    /\ is_mining' = FALSE
    /\ lastCall' = [op |-> "mine_block", result |-> "None"]
    /\ UNCHANGED <<ledgerVars, pending_blocks, received_hashes, message_history,
                   message_queue, block_times, mining_difficulty, total_blocks_mined,
                   last_block_received, now, tamperedAt, applied, govVars, posVars,
                   restVars>>

MineBlock == MineBlockFound \/ MineBlockTimeout

NextChain == MineBlockFound \/ MineBlockTimeout \/ Tick

SpecChain == Init /\ [][NextChain]_vars

----------------------------------------------------------------------------
\* PoCMinerNode.mine_block called from several threads: the method tests
\* is_mining, sets it, reads the tip, searches, appends and clears the flag in
\* its finally clause, with no lock around any of it

mineRest == <<state, pos_stakes, storage_pledges, pending_transactions, pending_blocks,
              received_hashes, last_block_received, now, tamperedAt, applied, govVars,
              posVars, validatorVars, peerVars, poolVars, syncVars, lotteryVars,
              discoveryVars, voteVars, gossipVars, networkVars>>

\* `if self.is_mining: return None`
MineEnter(c) ==
    /\ mining[c].pc = "idle"
    /\ IF is_mining
       THEN /\ lastCall' = [op |-> "mine_block", caller |-> c, result |-> "None",
                            refused |-> TRUE, chain_before |-> chain]
            /\ UNCHANGED mining
       ELSE /\ mining' = [mining EXCEPT ![c] = [pc |-> "checked"]]
            /\ UNCHANGED lastCall
    /\ UNCHANGED <<chain, is_mining, block_times, mining_difficulty, total_blocks_mined,
                   message_history, message_queue, mineRest>>

\* `self.is_mining = True`, and the tip the search starts from
MineMark(c) ==
    /\ mining[c].pc = "checked"
    /\ is_mining' = TRUE
    /\ mining' = [mining EXCEPT ![c] = [pc |-> "searching",
                                        latest_block |-> get_latest_block(chain),
                                        difficulty |-> mining_difficulty]]
    /\ UNCHANGED <<chain, block_times, mining_difficulty, total_blocks_mined,
                   message_history, message_queue, lastCall, mineRest>>

\* the search ends with a nonce (the block is appended and announced) or in
\* its timeout; the finally clause clears the flag either way
MineLeave(c) ==
    /\ mining[c].pc = "searching"
    /\ \/ /\ Len(chain) < MaxChain
          /\ \E nonce \in Nonces, mine_time \in {TARGET_BLOCK_TIME} :
               LET new_block == MinedBlock(mining[c].latest_block, now,
                                           mining[c].difficulty, nonce)
                   times == Append(block_times, mine_time)
               IN  /\ total_blocks_mined' = total_blocks_mined + 1
                   /\ block_times' = times
                   /\ chain' = Append(chain, new_block)
                   /\ mining_difficulty' =
                        update_mining_difficulty(mining_difficulty, times)
                   /\ BroadcastMessage(Message(<<"blk_", new_block.hash>>,
                                               BLOCK_ANNOUNCE, NODE_ID, now, new_block))
                   /\ lastCall' = [op |-> "mine_block", caller |-> c,
                                   result |-> "block", refused |-> FALSE,
                                   chain_before |-> chain]
       \/ /\ lastCall' = [op |-> "mine_block", caller |-> c, result |-> "None",
                           refused |-> FALSE, chain_before |-> chain]
          /\ UNCHANGED <<chain, block_times, mining_difficulty, total_blocks_mined,
                         message_history, message_queue>>
    /\ is_mining' = FALSE
    /\ mining' = [mining EXCEPT ![c] = [pc |-> "idle"]]
    /\ UNCHANGED mineRest

ConcurrentMine ==
    \E c \in MineCallers : MineEnter(c) \/ MineMark(c) \/ MineLeave(c)

NextMine == ConcurrentMine \/ Tick

SpecMine == Init /\ [][NextMine]_vars

----------------------------------------------------------------------------
\* The difficulty control loop: a miner that keeps mining, and
\* PoCDifficulty.calculate_new_difficulty called on its own

\* the miner's pace is free at these block counts and steady in between
PaceChanges == {0, 49, 50}

SteadyTimes ==
    IF Len(block_times) \in PaceChanges THEN MineTimes
    ELSE {block_times[Len(block_times)]}

SteadyNonces == IF Len(block_times) \in PaceChanges THEN Nonces ELSE {0}

MineBlockSteady == MineBlockWithin(MaxMined, SteadyNonces, SteadyTimes)

\* arguments of a direct call
DifficultyInputs == {1, 2, 4, 31, 32}
SampleTimes == {1125, 1800, 2250, 2700, 4500}
SampleLists ==
    UNION {[1..n -> SampleTimes] : n \in 0..MaxSamples}

CalculateNewDifficulty ==
    /\ (IF lastCall = NoCall THEN 0 ELSE 1) < MaxCalculations
    /\ \E current_difficulty \in DifficultyInputs, actual_block_times \in SampleLists :
        lastCall' = [op |-> "calculate_new_difficulty",
                     current_difficulty |-> current_difficulty,
                     actual_block_times |-> actual_block_times,
                     result |-> calculate_new_difficulty(current_difficulty,
                                                         actual_block_times)]
    /\ UNCHANGED <<ledgerVars, nodeVars, govVars, posVars, restVars, now,
                   tamperedAt, applied>>

NextDifficulty == MineBlockSteady \/ CalculateNewDifficulty

SpecDifficulty == Init /\ [][NextDifficulty]_vars

----------------------------------------------------------------------------
\* A stored block is mutated in place: one field of one of its transactions
\* takes a different value (Python objects are mutable; nothing freezes them)

TxFields == {"tx_id", "timestamp", "sender", "receiver", "amount", "tx_type",
             "nonce", "signature", "data"}

Flipped(tx, f) ==
    CASE f = "tx_id"     -> [tx EXCEPT !.tx_id = "FLIPPED"]
      [] f = "timestamp" -> [tx EXCEPT !.timestamp = tx.timestamp + 1]
      [] f = "sender"    -> [tx EXCEPT !.sender = "Mallory"]
      [] f = "receiver"  -> [tx EXCEPT !.receiver = "Mallory"]
      [] f = "amount"    -> [tx EXCEPT !.amount = tx.amount + 1]
      [] f = "tx_type"   -> [tx EXCEPT !.tx_type = STAKE_WITHDRAW]
      [] f = "nonce"     -> [tx EXCEPT !.nonce = tx.nonce + 1]
      [] f = "signature" -> [tx EXCEPT !.signature = "forged"]
      [] f = "data"      -> [tx EXCEPT !.data.note = "flipped"]

TamperTransaction ==
    /\ tamperedAt = {}
    /\ \E i \in DOMAIN chain :
        \E j \in DOMAIN chain[i].transactions, f \in TxFields :
            /\ chain' = [chain EXCEPT ![i].transactions[j] = Flipped(@, f)]
            /\ tamperedAt' = {i}
            /\ lastCall' = [op |-> "tamper", index |-> i, field |-> f]
    /\ UNCHANGED <<state, pos_stakes, storage_pledges, pending_transactions,
                   nodeVars, now, applied, govVars, posVars,
                   restVars>>

NextTamper == MineBlockFound \/ MineBlockTimeout \/ Tick \/ TamperTransaction

SpecTamper == Init /\ [][NextTamper]_vars

----------------------------------------------------------------------------
\* Blocks arriving from the network, as the dicts Block.to_dict produces
\* (a block record is its own dict; `absent` lists the keys a dict lacks)

BlockData(b, absent) ==
    [index |-> b.index, hash |-> b.hash, previous_hash |-> b.previous_hash,
     timestamp |-> b.timestamp, transactions |-> b.transactions, miner |-> b.miner,
     validators |-> b.validators, poc_difficulty |-> b.poc_difficulty,
     pow_lottery_winner |-> b.pow_lottery_winner, nonce |-> b.nonce,
     merkle_root |-> b.merkle_root, state_root |-> b.state_root, absent |-> absent]

\* transaction dicts carried by received blocks; amount NoneNum is a dict
\* without an amount, which _dict_to_transaction turns into amount = None
PayFarmerA == Transaction("tx_pay", 0, TREASURY, "Farmer_A", 500000, TRANSFER, NoData)
Overdraw == Transaction("tx_over", 0, "Farmer_A", "Farmer_B", 600000, TRANSFER, NoData)
NoAmount == Transaction("tx_none", 0, TREASURY, "Farmer_B", NoneNum, TRANSFER, NoData)

ReceivedTxLists == {<<>>, <<PayFarmerA>>, <<Overdraw>>, <<PayFarmerA, NoAmount>>}

\* what a peer can send when the node's tip is `tip`: a block that extends the
\* tip, one that chains onto something else, one whose stored hash is not the
\* hash of its fields, and one that lacks a required field
ReceivedBlocks(tip, ts) ==
    UNION {
        LET good == Block(tip.index + 1, tip.hash, ts, txs, "Miner_2", <<>>,
                          INITIAL_DIFFICULTY, 0)
            orphan == Block(tip.index + 1, tip.previous_hash, ts, txs, "Miner_2", <<>>,
                            INITIAL_DIFFICULTY, 0)
            forged == [good EXCEPT !.hash = calculate_hash([good EXCEPT !.nonce = 1])]
        IN  {BlockData(good, {}), BlockData(orphan, {}), BlockData(forged, {}),
             BlockData(good, {"miner"})}
        : txs \in ReceivedTxLists}

\* FullNode._verify_block_structure
RequiredFields == {"index", "hash", "previous_hash", "timestamp", "miner", "validators"}

verify_block_structure(block_data) == RequiredFields \cap block_data.absent = {}

\* the loop of validate_and_apply_block over the block's transactions:
\* _dict_to_transaction, then Blockchain.add_transaction.  A transaction without
\* an amount raises (a balance cannot be compared with None); what was appended
\* before it stays appended.
RECURSIVE AddBlockTransactions(_, _, _)
AddBlockTransactions(pending, st, txs) ==
    IF txs = <<>> THEN [pending |-> pending, raised |-> FALSE]
    ELSE IF Head(txs).amount = NoneNum THEN [pending |-> pending, raised |-> TRUE]
    ELSE AddBlockTransactions(
            IF AddTransactionAdmits(st, Head(txs)) THEN Append(pending, Head(txs))
            ELSE pending,
            st, Tail(txs))

\* FullNode.validate_and_apply_block(block_data)
ValidateAndApplyBlock ==
    /\ Len(pending_transactions) < MaxPending
    /\ \E block_data \in ReceivedBlocks(get_latest_block(chain), now) :
        IF ~verify_block_structure(block_data)
        THEN /\ lastCall' = [op |-> "validate_and_apply_block", block |-> block_data,
                             result |-> FALSE]
             /\ UNCHANGED <<pending_transactions, last_block_received>>
        ELSE LET r == AddBlockTransactions(pending_transactions, state,
                                           block_data.transactions)
             IN  /\ pending_transactions' = r.pending
                 /\ last_block_received' = IF r.raised THEN last_block_received ELSE now
                 /\ lastCall' = [op |-> "validate_and_apply_block",
                                 block |-> block_data, result |-> ~r.raised]
    /\ UNCHANGED <<chain, state, pos_stakes, storage_pledges, pending_blocks,
                   received_hashes, message_history, message_queue, block_times,
                   mining_difficulty, is_mining, total_blocks_mined, now, tamperedAt,
                   applied, govVars, posVars,
                   restVars>>

\* FCUNode.receive_block(block_data): MemoryPool.add_block, then the broadcast
ReceiveBlock ==
    /\ Cardinality(DOMAIN pending_blocks) < MaxPool
    /\ \E block_data \in ReceivedBlocks(get_latest_block(chain), now) :
        IF block_data.hash \in DOMAIN pending_blocks
        THEN /\ lastCall' = [op |-> "receive_block", block |-> block_data,
                             result |-> FALSE]
             /\ UNCHANGED <<pending_blocks, received_hashes, message_history,
                            message_queue>>
        ELSE /\ pending_blocks' = Put(pending_blocks, block_data.hash, block_data)
             /\ received_hashes' = received_hashes \cup {block_data.hash}
             /\ BroadcastMessage(Message(<<"blk_", block_data.hash>>, BLOCK_ANNOUNCE,
                                         NODE_ID, now, block_data))
             /\ lastCall' = [op |-> "receive_block", block |-> block_data,
                             result |-> TRUE]
    /\ UNCHANGED <<ledgerVars, block_times, mining_difficulty, is_mining,
                   total_blocks_mined, last_block_received, now, tamperedAt, applied, govVars, posVars,
                   restVars>>

NextReceive == ValidateAndApplyBlock \/ ReceiveBlock

SpecReceive == Init /\ [][NextReceive]_vars

\* a node that mines, at an even pace, and is handed blocks from the network
MineBlockEvenly == MineBlockWithin(MaxChain, {0}, {TARGET_BLOCK_TIME})

NextNode == MineBlockEvenly \/ ValidateAndApplyBlock \/ Tick

SpecNode == Init /\ [][NextNode]_vars

NextTransfer == ProcessTransfers

SpecTransfer == Init /\ [][NextTransfer]_vars

NextLedger == ProcessAnyTransactions \/ Tick

SpecLedger == Init /\ [][NextLedger]_vars

----------------------------------------------------------------------------
\* GovernanceCouncil and its Treasury

nodeSide == <<ledgerVars, nodeVars, posVars, restVars, tamperedAt, applied>>

\* GovernanceCouncil.create_proposal(proposal_type, description, proposed_changes)
CreateProposalFrom(Inputs) ==
    /\ proposal_counter + Cardinality(DOMAIN pending_proposals) < MaxProposals
    /\ \E input \in Inputs :
        LET proposal_id == ProposalId(proposal_counter + 1)
        IN  /\ proposals' = Put(proposals, proposal_id,
                    [proposal_id |-> proposal_id, proposal_type |-> input.proposal_type,
                     proposer |-> TREASURER_ID, proposed_changes |-> input.proposed_changes,
                     timestamp |-> now, voting_deadline |-> now + DefaultVotingPeriod,
                     status |-> VOTING, votes |-> <<>>, execution_time |-> NoneNum])
            /\ lastCall' = [op |-> "create_proposal", result |-> TRUE]
    /\ proposal_counter' = proposal_counter + 1
    /\ UNCHANGED <<council_members, reward_config, treasury, parameter_history, now,
                   nodeSide>>

CreateProposal == CreateProposalFrom(ProposalInputs)

\* create_proposal, also with spending proposals whose change map lacks a key
CreateAnyProposal == CreateProposalFrom(ProposalInputs \cup IncompleteSpending)

\* GovernanceCouncil._finalize_proposal with _execute_proposal: the proposal
\* and the governance state after the vote that completed the count
Finalized(proposal, G, ts) ==
    IF is_approved(proposal, MinApproval)
    THEN [proposal |-> [proposal EXCEPT !.status = EXECUTED, !.execution_time = ts],
          gov |-> execute_proposal(G, proposal, ts)]
    ELSE [proposal |-> [proposal EXCEPT !.status = REJECTED], gov |-> G]

\* the test of vote_on_proposal for finalizing after a recorded vote
VotesComplete(proposal, members) == Cardinality(DOMAIN proposal.votes) >= Len(members)

\* observation: the vote is on an unknown proposal, by a voter who is neither
\* the treasurer nor a council member, or outside the voting window
OutsideVotingRules(proposal_id, voter_id) ==
    \/ proposal_id \notin DOMAIN proposals
    \/ voter_id \notin Range(council_members) \cup {TREASURER_ID}
    \/ now >= proposals[proposal_id].voting_deadline
    \/ proposals[proposal_id].status # VOTING

VoteCall(proposal_id, voter_id, result) ==
    [op |-> "vote_on_proposal", result |-> result,
     outside_rules |-> OutsideVotingRules(proposal_id, voter_id)]

\* GovernanceCouncil.vote_on_proposal(proposal_id, voter_id, vote)
VoteOnProposal(proposal_id, voter_id, vote) ==
    /\ IF \/ proposal_id \notin DOMAIN proposals
          \/ voter_id \notin Range(council_members)
          \/ ~is_voting_active(proposals[proposal_id], now)
       THEN /\ lastCall' = VoteCall(proposal_id, voter_id, FALSE)
            /\ UNCHANGED <<proposals, reward_config, treasury, parameter_history>>
       ELSE LET voted == [proposals[proposal_id] EXCEPT !.votes = Put(@, voter_id, vote)]
                G == Gov(reward_config, treasury, parameter_history)
                done == IF VotesComplete(voted, council_members)
                        THEN Finalized(voted, G, now)
                        ELSE [proposal |-> voted, gov |-> G]
            IN  /\ proposals' = [proposals EXCEPT ![proposal_id] = done.proposal]
                /\ reward_config' = done.gov.reward_config
                /\ treasury' = done.gov.treasury
                /\ parameter_history' = done.gov.parameter_history
                /\ lastCall' = VoteCall(proposal_id, voter_id, TRUE)
    /\ UNCHANGED <<council_members, proposal_counter, now, nodeSide>>

Vote ==
    \E n \in 1..(MaxProposals + 1), voter_id \in Voters, vote \in BOOLEAN :
        VoteOnProposal(ProposalId(n), voter_id, vote)

\* Treasury.allocate_funds(purpose, amount) on the council's treasury
AllocateFunds ==
    /\ Cardinality({i \in DOMAIN treasury.transactions :
                        treasury.transactions[i].type = "allocation"}) < MaxAllocations
    /\ \E amount \in AllocationAmounts :
        /\ treasury' = allocate_funds(treasury, "grants", amount, now)
        /\ lastCall' = [op |-> "allocate_funds", result |-> amount <= treasury.balance]
    /\ UNCHANGED <<council_members, proposals, proposal_counter, reward_config,
                   parameter_history, now, nodeSide>>

----------------------------------------------------------------------------
\* GovernanceCouncil.vote_on_proposal called from several threads.  A thread
\* is "idle" outside the call, "admitted" after the three tests, "recorded"
\* after it stored its vote, and leaves after the count and what follows it.

raceRest == <<ledgerVars, nodeVars, posVars, validatorVars, peerVars, poolVars, syncVars,
              lotteryVars, discoveryVars, otherVars, tamperedAt, applied, council_members,
              proposal_counter, now>>

\* the tests: unknown proposal, voter outside the council, voting not active
VoteAdmit(c, proposal_id, voter_id, vote) ==
    /\ voting[c].pc = "idle"
    /\ IF \/ proposal_id \notin DOMAIN proposals
          \/ voter_id \notin Range(council_members)
          \/ ~is_voting_active(proposals[proposal_id], now)
       THEN /\ lastCall' = VoteCall(proposal_id, voter_id, FALSE)
            /\ UNCHANGED voting
       ELSE /\ voting' = [voting EXCEPT ![c] =
                            [pc |-> "admitted", proposal_id |-> proposal_id,
                             voter_id |-> voter_id, vote |-> vote]]
            /\ UNCHANGED lastCall
    /\ UNCHANGED <<proposals, reward_config, treasury, parameter_history, raceRest>>

\* proposal.votes[voter_id] = vote
VoteRecord(c) ==
    /\ voting[c].pc = "admitted"
    /\ proposals' = [proposals EXCEPT
                        ![voting[c].proposal_id].votes =
                            Put(@, voting[c].voter_id, voting[c].vote)]
    /\ voting' = [voting EXCEPT ![c].pc = "recorded"]
    /\ UNCHANGED <<lastCall, reward_config, treasury, parameter_history, raceRest>>

\* the count of the votes, _finalize_proposal when it is complete, return True
VoteCount(c) ==
    /\ voting[c].pc = "recorded"
    /\ LET proposal_id == voting[c].proposal_id
            G == Gov(reward_config, treasury, parameter_history)
            done == IF VotesComplete(proposals[proposal_id], council_members)
                    THEN Finalized(proposals[proposal_id], G, now)
                    ELSE [proposal |-> proposals[proposal_id], gov |-> G]
       IN  /\ proposals' = [proposals EXCEPT ![proposal_id] = done.proposal]
           /\ reward_config' = done.gov.reward_config
           /\ treasury' = done.gov.treasury
           /\ parameter_history' = done.gov.parameter_history
           /\ lastCall' = VoteCall(proposal_id, voting[c].voter_id, TRUE)
    /\ voting' = [voting EXCEPT ![c] = [pc |-> "idle"]]
    /\ UNCHANGED raceRest

ConcurrentVote ==
    \E c \in VoteCallers :
        \/ \E voter_id \in Range(council_members), vote \in BOOLEAN :
                VoteAdmit(c, ProposalId(1), voter_id, vote)
        \/ VoteRecord(c)
        \/ VoteCount(c)

\* a council of three, so that three votes complete the count
InitRace ==
    /\ NodeInit
    /\ GovernanceCouncil(SubSeq(CouncilCandidates, 1, MinApproval))
    /\ PoSConsensus(SubSeq(CouncilCandidates, 1, MinApproval))

NextRace == CreateProposal \/ AllocateFunds \/ ConcurrentVote

SpecRace == InitRace /\ [][NextRace]_vars

----------------------------------------------------------------------------
\* PoSConsensus: block proposals of the treasurer and the votes on them

govSide == <<ledgerVars, nodeVars, govVars, restVars, tamperedAt, applied>>

BlockHashes == {Sha256("block", 1), Sha256("block", 2)}
Proposers == {TREASURER_ID, "Council_1"}
PoSVoters == {TREASURER_ID, "Council_1", "Outsider"}

\* PoSConsensus.propose_block(block_hash, block_data, proposer_id)
ProposeBlock ==
    /\ \E block_hash \in BlockHashes, proposer_id \in Proposers :
        /\ proposal_counter + Cardinality(DOMAIN pending_proposals \cup {block_hash})
                <= MaxProposals
        /\ IF proposer_id = TREASURER_ID
           THEN /\ pending_proposals' = Put(pending_proposals, block_hash,
                        [data |-> "block_data", proposer |-> proposer_id,
                         votes |-> <<>>, timestamp |-> now])
                /\ lastCall' = [op |-> "propose_block", result |-> TRUE]
           ELSE /\ UNCHANGED pending_proposals
                /\ lastCall' = [op |-> "propose_block", result |-> FALSE]
    /\ UNCHANGED <<council, now, govSide>>

\* observation: the vote is on an unknown block proposal or by a voter who is
\* neither the treasurer nor a council member (a block proposal has no deadline
\* and no status)
OutsidePoSVotingRules(block_hash, voter_id) ==
    \/ block_hash \notin DOMAIN pending_proposals
    \/ voter_id \notin council \cup {TREASURER_ID}

PoSVoteCall(block_hash, voter_id, result) ==
    [op |-> "PoSConsensus.vote_on_proposal", result |-> result,
     outside_rules |-> OutsidePoSVotingRules(block_hash, voter_id)]

\* PoSConsensus.vote_on_proposal(block_hash, voter_id, vote)
PoSVoteOnProposal(block_hash, voter_id, vote) ==
    /\ IF block_hash \notin DOMAIN pending_proposals
       THEN /\ lastCall' = PoSVoteCall(block_hash, voter_id, FALSE)
            /\ UNCHANGED pending_proposals
       ELSE IF voter_id \notin council /\ voter_id # TREASURER_ID
       THEN /\ lastCall' = PoSVoteCall(block_hash, voter_id, FALSE)
            /\ UNCHANGED pending_proposals
       ELSE /\ pending_proposals' = [pending_proposals EXCEPT
                    ![block_hash].votes = Put(@, voter_id, vote)]
            /\ lastCall' = PoSVoteCall(block_hash, voter_id, TRUE)
    /\ UNCHANGED <<council, now, govSide>>

PoSVote ==
    \E block_hash \in BlockHashes, voter_id \in PoSVoters, vote \in BOOLEAN :
        PoSVoteOnProposal(block_hash, voter_id, vote)

\* PoSConsensus.add_council_member(member_id, validator)
AddCouncilMember ==
    /\ \E member_id \in Voters :
        /\ council' = add_council_member(council, member_id)
        /\ lastCall' = [op |-> "add_council_member",
                        result |-> Cardinality(council) < MaxCouncil /\ member_id \notin council,
                        full |-> Cardinality(council) >= MaxCouncil,
                        present |-> member_id \in council]
    /\ UNCHANGED <<pending_proposals, now, govSide>>

\* PoSConsensus.remove_council_member(member_id)
RemoveCouncilMember ==
    /\ \E member_id \in Voters :
        /\ council' = remove_council_member(council, member_id)
        /\ lastCall' = [op |-> "remove_council_member", result |-> member_id \in council,
                        full |-> Cardinality(council) >= MaxCouncil,
                        present |-> member_id \in council]
    /\ UNCHANGED <<pending_proposals, now, govSide>>

\* PoSConsensus.count_votes(block_hash): yes votes, no votes and the number of
\* validators (council and treasurer)
count_votes(pending, members, block_hash) ==
    IF block_hash \notin DOMAIN pending
    THEN [yes_votes |-> 0, no_votes |-> 0, total |-> 0]
    ELSE LET votes == pending[block_hash].votes
         IN  [yes_votes |-> Cardinality({v \in DOMAIN votes : votes[v]}),
              no_votes |-> Cardinality({v \in DOMAIN votes : ~votes[v]}),
              total |-> Cardinality(members) + 1]

\* PoSConsensus.is_proposal_approved(block_hash)
is_proposal_approved(pending, members, block_hash) ==
    count_votes(pending, members, block_hash).yes_votes >= MinApproval

NextCouncil == AddCouncilMember \/ RemoveCouncilMember

SpecCouncil == InitGov /\ [][NextCouncil]_vars

\* block proposals voted on by a council that changes meanwhile
BlockVoters == {TREASURER_ID, "Council_1", "Council_2"}

BlockVote ==
    \E block_hash \in BlockHashes, voter_id \in BlockVoters, vote \in BOOLEAN :
        PoSVoteOnProposal(block_hash, voter_id, vote)

NextBlockVote == ProposeBlock \/ BlockVote \/ AddCouncilMember \/ RemoveCouncilMember

SpecBlockVote == InitRace /\ [][NextBlockVote]_vars

----------------------------------------------------------------------------
\* Peers given to the node

PeerNames ==
    <<"Peer_1", "Peer_2", "Peer_3", "Peer_4", "Peer_5", "Peer_6", "Peer_7", "Peer_8">>
Reputations == <<50, 100, 50, 0, 100, 30, 70, 50>>

\* the peers a node may know, all seen at time 0
KnownPeers == [i \in 1..MaxPeers |-> PeerInfo(PeerNames[i], Reputations[i], 0)]

----------------------------------------------------------------------------
\* FCUNode: peers and gossip

TRANSACTION == "transaction"

\* the peers that may connect: three seen now, one last seen a tick ago
GossipPeers ==
    {KnownPeers[1], KnownPeers[2], KnownPeers[3], PeerInfo("Peer_4", 100, -1)}

\* messages of two senders; the second is the first again with fewer hops left
GossipMessages ==
    {[Message("m1", TRANSACTION, "Peer_1", 0, [note |-> "a"]) EXCEPT !.ttl = t] : t \in {64, 2}}
    \cup {[Message("m2", TRANSACTION, "Peer_2", 0, [note |-> "b"]) EXCEPT !.ttl = t] :
                t \in {0, 1}}

\* connected_peers.values(), in the order of PeerNames
PeerList(table) ==
    LET ids == SelectSeq(PeerNames, LAMBDA id : id \in DOMAIN table)
    IN  [i \in 1..Len(ids) |-> table[ids[i]]]

\* the alive peers broadcast_message offers to the selection
available(table, exclude_peer, t) ==
    SelectSeq(PeerList(table), LAMBDA peer : peer.peer_id # exclude_peer /\ is_alive(peer, t))

\* a relay that excludes nobody
ExcludeNobody(message) == "None"

\* the peer receive_message excludes from the relay of a message
RelayExclude(message) == message.sender_id

\* FCUNode.connect_peer(peer_info)
ConnectPeer ==
    /\ \E peer_info \in GossipPeers :
        /\ connected_peers' = Put(connected_peers, peer_info.peer_id, peer_info)
        /\ known_peers' = add_peer(known_peers, peer_info)
        /\ peer_index' = add_peer_index(peer_index, known_peers, peer_info)
        /\ lastCall' = [op |-> "connect_peer", result |-> TRUE]
    /\ UNCHANGED <<ledgerVars, nodeVars, govVars, posVars, validatorVars, poolVars,
                   syncVars, lotteryVars, voteVars, otherVars, now, tamperedAt, applied>>

gossipRest == <<ledgerVars, pending_blocks, received_hashes, block_times, mining_difficulty,
                is_mining, total_blocks_mined, last_block_received, govVars, posVars,
                restVars, now, tamperedAt, applied>>

\* FCUNode.broadcast_message(message), called on its own: the return value is
\* the number of targets selected
BroadcastCall ==
    /\ \E message \in GossipMessages :
        /\ BroadcastMessage(message)
        /\ \E run \in select_propagation_targets(
                            available(connected_peers, "None", now), "None") :
            lastCall' = [op |-> "broadcast_message", message |-> message,
                         duplicate |-> MessageHash(message) \in message_history,
                         result |-> Len(Selected(run))]
    /\ UNCHANGED gossipRest

\* FCUNode.receive_message(message)
ReceiveMessage ==
    /\ \E message \in GossipMessages :
        IF ~should_propagate(message_history, message)
        THEN /\ lastCall' = [op |-> "receive_message", message |-> message,
                             duplicate |-> MessageHash(message) \in message_history,
                             result |-> FALSE, relayed |-> FALSE, targets |-> {}]
             /\ UNCHANGED <<message_history, message_queue>>
        ELSE \E history \in add_to_history(message_history, message) :
            LET relay == [message EXCEPT !.ttl = @ - 1]
            IN  IF relay.ttl > 0
                THEN \* broadcast_message(message, message.sender_id)
                     /\ IF should_propagate(history, relay)
                        THEN /\ message_queue' = Append(message_queue, relay)
                             /\ message_history' \in add_to_history(history, relay)
                        ELSE /\ message_queue' = message_queue
                             /\ message_history' = history
                     /\ \E run \in select_propagation_targets(
                                available(connected_peers, RelayExclude(message), now),
                                RelayExclude(message)) :
                          lastCall' = [op |-> "receive_message", message |-> message,
                                       duplicate |-> FALSE, result |-> TRUE,
                                       relayed |-> TRUE,
                                       targets |-> Range(Selected(run))]
                ELSE /\ message_history' = history
                     /\ message_queue' = message_queue
                     /\ lastCall' = [op |-> "receive_message", message |-> message,
                                     duplicate |-> FALSE, result |-> TRUE,
                                     relayed |-> FALSE, targets |-> {}]
    /\ UNCHANGED gossipRest

NextGossip == ConnectPeer \/ BroadcastCall \/ ReceiveMessage

----------------------------------------------------------------------------
\* GossipProtocol(max_history = n): the dedup history of an instance with a
\* small capacity.  seen lists the hashes in the order add_to_history was
\* given them.

HistoryLimits == {1, 2, 3}

HistoryMessages ==
    {[Message(<<"m", i>>, TRANSACTION, "Peer_1", 0, [note |-> i]) EXCEPT !.ttl = t] :
        i \in 1..4, t \in {0, 64}}

historyRest == <<ledgerVars, nodeVars, govVars, posVars, validatorVars, peerVars,
                 poolVars, syncVars, lotteryVars, discoveryVars, voteVars, minerVars,
                 networkVars, now, tamperedAt, applied>>

NewGossipProtocol ==
    /\ gossip = NoInstance
    /\ \E limit \in HistoryLimits :
         gossip' = [max_history |-> limit, message_history |-> {},
                    message_queue |-> <<>>, seen |-> <<>>]
    /\ lastCall' = [op |-> "GossipProtocol"]
    /\ UNCHANGED historyRest

\* GossipProtocol.add_to_history(message)
AddToHistory ==
    /\ gossip # NoInstance
    /\ Len(gossip.seen) < MaxSeen
    /\ \E m \in HistoryMessages :
        \E kept \in add_to_history_within(gossip.message_history, m, gossip.max_history) :
            /\ gossip' = [gossip EXCEPT !.message_history = kept,
                                        !.seen = Append(@, MessageHash(m))]
            /\ lastCall' = [op |-> "add_to_history", message |-> m]
    /\ UNCHANGED historyRest

\* GossipProtocol.add_message(message)
AddMessage ==
    /\ gossip # NoInstance
    /\ Len(gossip.seen) < MaxSeen
    /\ \E m \in HistoryMessages :
        IF should_propagate(gossip.message_history, m)
        THEN \E kept \in add_to_history_within(gossip.message_history, m,
                                               gossip.max_history) :
                /\ gossip' = [gossip EXCEPT !.message_history = kept,
                                            !.message_queue = Append(@, m),
                                            !.seen = Append(@, MessageHash(m))]
                /\ lastCall' = [op |-> "add_message", message |-> m, queued |-> TRUE]
        ELSE /\ lastCall' = [op |-> "add_message", message |-> m, queued |-> FALSE]
             /\ UNCHANGED gossip
    /\ UNCHANGED historyRest

NextHistory == NewGossipProtocol \/ AddToHistory \/ AddMessage

SpecHistory == Init /\ [][NextHistory]_vars

----------------------------------------------------------------------------
\* A network of FCUNodes: what broadcast_message selects as targets is
\* delivered to them, and each target runs receive_message on its copy.  The
\* histories hold NetMaxHistory hashes, standing for the 1000 of a node.

OriginTtls == {1, 2}

NetMessages ==
    {[Message(<<"m", i>>, TRANSACTION, "Node_A", 0, [note |-> i]) EXCEPT !.ttl = t] :
        i \in 1..2, t \in OriginTtls}

networkRest == <<ledgerVars, nodeVars, govVars, posVars, validatorVars, peerVars,
                 poolVars, syncVars, lotteryVars, discoveryVars, voteVars, minerVars,
                 gossipVars, now, tamperedAt, applied>>

\* the copies of a message on their way to the targets a node selected
Packets(targets, message, origin_ttl, hops) ==
    {[to |-> t, message |-> message, origin_ttl |-> origin_ttl, hops |-> hops] :
        t \in targets}

\* broadcast_message(message) on the node that creates the message
Originate ==
    /\ \E message \in NetMessages, targets \in SUBSET (NetNodes \ {"Node_A"}) :
        /\ message.message_id \notin network.sent
        /\ \E history \in
                IF should_propagate(network.history["Node_A"], message)
                THEN add_to_history_within(network.history["Node_A"], message,
                                           NetMaxHistory)
                ELSE {network.history["Node_A"]} :
             network' = [network EXCEPT
                 !.history["Node_A"] = history,
                 !.sent = @ \cup {message.message_id},
                 !.wire = @ \cup Packets(targets, message, message.ttl, 1)]
        /\ lastCall' = [op |-> "broadcast_message", message |-> message,
                        result |-> Cardinality(targets)]
    /\ UNCHANGED networkRest

\* receive_message(message) on the node a copy arrives at
Deliver ==
    /\ \E packet \in network.wire :
        LET node == packet.to
            message == packet.message
            arrived == network.wire \ {packet}
        IN  IF ~should_propagate(network.history[node], message)
            THEN /\ network' = [network EXCEPT !.wire = arrived]
                 /\ lastCall' = [op |-> "receive_message", node |-> node,
                                 message |-> message, result |-> FALSE]
            ELSE \E history \in add_to_history_within(network.history[node], message,
                                                      NetMaxHistory),
                    targets \in SUBSET (NetNodes \ {node, message.sender_id}) :
                LET relay == [message EXCEPT !.ttl = @ - 1]
                    accepted == Append(network.accepted[node],
                                       [hash |-> MessageHash(message),
                                        origin_ttl |-> packet.origin_ttl,
                                        hops |-> packet.hops])
                IN  /\ IF relay.ttl > 0
                       THEN \E relayed \in
                               IF should_propagate(history, relay)
                               THEN add_to_history_within(history, relay, NetMaxHistory)
                               ELSE {history} :
                            network' = [network EXCEPT
                                !.history[node] = relayed,
                                !.accepted[node] = accepted,
                                !.wire = arrived \cup
                                    Packets(targets, relay, packet.origin_ttl,
                                            packet.hops + 1)]
                       ELSE network' = [network EXCEPT
                                !.history[node] = history,
                                !.accepted[node] = accepted,
                                !.wire = arrived]
                    /\ lastCall' = [op |-> "receive_message", node |-> node,
                                    message |-> message, result |-> TRUE]
    /\ UNCHANGED networkRest

NextNetwork == Originate \/ Deliver

\* every copy on its way is delivered in the end
SpecNetwork == Init /\ [][NextNetwork]_vars /\ WF_vars(Deliver)

SpecGossip == Init /\ [][NextGossip]_vars

----------------------------------------------------------------------------
\* GossipProtocol.select_propagation_targets on its own

AvailableLists == {SubSeq(KnownPeers, 1, n) : n \in 0..MaxPeers}
ExcludedPeers == {"None", "Peer_1", "Peer_2"}

SelectPropagationTargets ==
    /\ (IF lastCall = NoCall THEN 0 ELSE 1) < MaxSelections
    /\ \E available_peers \in AvailableLists, exclude_peer \in ExcludedPeers :
        \E run \in select_propagation_targets(available_peers, exclude_peer) :
            lastCall' = [op |-> "select_propagation_targets",
                         available_peers |-> available_peers,
                         exclude_peer |-> exclude_peer, run |-> run]
    /\ UNCHANGED <<ledgerVars, nodeVars, govVars, posVars, restVars, now, tamperedAt,
                   applied>>

NextSelect == SelectPropagationTargets

SpecSelect == Init /\ [][NextSelect]_vars

----------------------------------------------------------------------------
\* MemoryPool on its own

\* capacities a pool is constructed with
PoolSizes == {1, 2}

\* transaction and block dicts handed to the pool
PoolTxs == {[tx_id |-> id, sender |-> TREASURY, receiver |-> "Farmer_A", amount |-> 1] :
                id \in {"t1", "t2", "t3"}}
PoolBlocks == {[hash |-> h, index |-> 1] : h \in {"h1", "h2", "h3"}}

poolRest == <<ledgerVars, message_history, message_queue, block_times, mining_difficulty,
              is_mining, total_blocks_mined, last_block_received, govVars, posVars,
              validatorVars, peerVars, syncVars, extraVars, max_size, now, tamperedAt, applied>>

\* MemoryPool.add_transaction(tx_data)
MempoolAddTransaction ==
    /\ \E tx_data \in PoolTxs :
        LET tx_id == tx_data.tx_id
            full == Cardinality(DOMAIN mempool_transactions) >= max_size
            held == tx_id \in DOMAIN mempool_transactions
            call == [op |-> "add_transaction", id |-> tx_id, full |-> full, held |-> held,
                     seen |-> tx_id \in received_hashes]
        IN  IF full \/ held
            THEN /\ lastCall' = call @@ [result |-> FALSE]
                 /\ UNCHANGED <<mempool_transactions, received_hashes>>
            ELSE /\ mempool_transactions' = Put(mempool_transactions, tx_id, tx_data)
                 /\ received_hashes' = received_hashes \cup {tx_id}
                 /\ lastCall' = call @@ [result |-> TRUE]
    /\ UNCHANGED <<pending_blocks, poolRest>>

\* MemoryPool.add_block(block_data)
MempoolAddBlock ==
    /\ \E block_data \in PoolBlocks :
        LET block_hash == block_data.hash
            call == [op |-> "add_block", id |-> block_hash,
                     full |-> Cardinality(DOMAIN pending_blocks) >= max_size,
                     held |-> block_hash \in DOMAIN pending_blocks,
                     seen |-> block_hash \in received_hashes]
        IN  IF block_hash \in DOMAIN pending_blocks
            THEN /\ lastCall' = call @@ [result |-> FALSE]
                 /\ UNCHANGED <<pending_blocks, received_hashes>>
            ELSE /\ pending_blocks' = Put(pending_blocks, block_hash, block_data)
                 /\ received_hashes' = received_hashes \cup {block_hash}
                 /\ lastCall' = call @@ [result |-> TRUE]
    /\ UNCHANGED <<mempool_transactions, poolRest>>

\* MemoryPool.remove_transaction(tx_id)
MempoolRemoveTransaction ==
    /\ \E tx_data \in PoolTxs :
        LET tx_id == tx_data.tx_id
        IN  IF tx_id \in DOMAIN mempool_transactions
            THEN /\ mempool_transactions' =
                        [id \in DOMAIN mempool_transactions \ {tx_id} |->
                            mempool_transactions[id]]
                 /\ lastCall' = [op |-> "remove_transaction", id |-> tx_id, result |-> TRUE]
            ELSE /\ UNCHANGED mempool_transactions
                 /\ lastCall' = [op |-> "remove_transaction", id |-> tx_id, result |-> FALSE]
    /\ UNCHANGED <<pending_blocks, received_hashes, poolRest>>

InitMempool ==
    /\ NodeCore
    /\ \E size \in PoolSizes : MemoryPool(size)
    /\ PoSValidator(0)
    /\ GovernanceCouncil(SubSeq(CouncilCandidates, 1, MaxCouncil))
    /\ PoSConsensus(SubSeq(CouncilCandidates, 1, MaxCouncil))

NextMempool == MempoolAddTransaction \/ MempoolAddBlock \/ MempoolRemoveTransaction

SpecMempool == InitMempool /\ [][NextMempool]_vars

----------------------------------------------------------------------------
\* The two ways a transaction is admitted: Blockchain.add_transaction to the
\* ledger's pending list and FCUNode.receive_transaction to the mempool

\* the treasury can pay either amount, Farmer_A (balance 0) neither
AdmissionTxs ==
    {Transaction(id, 0, s, "Farmer_B", a, TRANSFER, NoData) :
        id \in {"t1", "t2"}, s \in {TREASURY, "Farmer_A"}, a \in {1, 500000}}

admissionRest == <<chain, state, pos_stakes, storage_pledges, pending_blocks, block_times,
                   mining_difficulty, is_mining, total_blocks_mined, last_block_received,
                   govVars, posVars, validatorVars, peerVars, syncVars, extraVars,
                   max_size, now, tamperedAt, applied>>

\* Blockchain.add_transaction(transaction)
AddTransaction ==
    /\ Len(pending_transactions) < MaxPending
    /\ \E tx \in AdmissionTxs :
        LET call == [op |-> "Blockchain.add_transaction", transaction |-> tx,
                     balance |-> get_balance(state, tx.sender),
                     pending_before |-> pending_transactions,
                     pool_before |-> mempool_transactions, state_before |-> state]
        IN  IF AddTransactionAdmits(state, tx)
            THEN /\ pending_transactions' = Append(pending_transactions, tx)
                 /\ lastCall' = call @@ [result |-> TRUE]
            ELSE /\ UNCHANGED pending_transactions
                 /\ lastCall' = call @@ [result |-> FALSE]
    /\ UNCHANGED <<mempool_transactions, received_hashes, message_history,
                   message_queue, admissionRest>>

\* FCUNode.receive_transaction(tx_data): MemoryPool.add_transaction, then the
\* broadcast of the transaction
ReceiveTransaction ==
    /\ Cardinality(DOMAIN mempool_transactions) < MaxPool
    /\ \E tx_data \in AdmissionTxs :
        LET tx_id == tx_data.tx_id
            call == [op |-> "receive_transaction", transaction |-> tx_data,
                     balance |-> get_balance(state, tx_data.sender),
                     pending_before |-> pending_transactions,
                     pool_before |-> mempool_transactions, state_before |-> state]
        IN  IF \/ Cardinality(DOMAIN mempool_transactions) >= max_size
               \/ tx_id \in DOMAIN mempool_transactions
            THEN /\ lastCall' = call @@ [result |-> FALSE]
                 /\ UNCHANGED <<mempool_transactions, received_hashes, message_history,
                                message_queue>>
            ELSE /\ mempool_transactions' = Put(mempool_transactions, tx_id, tx_data)
                 /\ received_hashes' = received_hashes \cup {tx_id}
                 /\ BroadcastMessage(Message(<<"tx_", tx_id>>, TRANSACTION, NODE_ID, now,
                                             tx_data))
                 /\ lastCall' = call @@ [result |-> TRUE]
    /\ UNCHANGED <<pending_transactions, admissionRest>>

NextAdmission == AddTransaction \/ ReceiveTransaction \/ Tick

SpecAdmission == Init /\ [][NextAdmission]_vars

----------------------------------------------------------------------------
\* NetworkSyncer called from several threads.  A thread is "idle" outside
\* start_sync, "checked" after it found sync_in_progress false and before it
\* sets the flag, and "syncing" from the return of True to its finish_sync.

syncRest == <<ledgerVars, nodeVars, govVars, posVars, validatorVars, peerVars, poolVars,
              extraVars, now, tamperedAt, applied>>

\* start_sync, the test of the flag: return False, or go on to set it
StartSyncCheck(c) ==
    /\ callers[c] = "idle"
    /\ IF sync_in_progress
       THEN /\ lastCall' = [op |-> "start_sync", caller |-> c, result |-> FALSE]
            /\ UNCHANGED callers
       ELSE /\ callers' = [callers EXCEPT ![c] = "checked"]
            /\ UNCHANGED lastCall
    /\ UNCHANGED <<sync_in_progress, last_sync_time, syncRest>>

\* start_sync, the assignments and the return of True
StartSyncSet(c) ==
    /\ callers[c] = "checked"
    /\ sync_in_progress' = TRUE
    /\ last_sync_time' = now
    /\ callers' = [callers EXCEPT ![c] = "syncing"]
    /\ lastCall' = [op |-> "start_sync", caller |-> c, result |-> TRUE]
    /\ UNCHANGED syncRest

\* finish_sync by the thread whose start_sync returned True
FinishSync(c) ==
    /\ callers[c] = "syncing"
    /\ sync_in_progress' = FALSE
    /\ callers' = [callers EXCEPT ![c] = "idle"]
    /\ lastCall' = [op |-> "finish_sync", caller |-> c, result |-> TRUE]
    /\ UNCHANGED <<last_sync_time, syncRest>>

StartSync == \E c \in Callers : StartSyncCheck(c) \/ StartSyncSet(c)

Finish == \E c \in Callers : FinishSync(c)

NextSync == StartSync \/ Finish \/ Tick

SpecSync == Init /\ [][NextSync]_vars

----------------------------------------------------------------------------
\* consensus.py : PoWLottery

\* the dict entry register_participant stores
Participant(participant_id, storage_gb) ==
    [id |-> participant_id, storage_gb |-> storage_gb, entries |-> 0, wins |-> 0,
     last_entry_block |-> 0]

\* position of an id among the entries of the dict, 0 when it is not a key
IndexOf(participants, participant_id) ==
    IF \E i \in DOMAIN participants : participants[i].id = participant_id
    THEN CHOOSE i \in DOMAIN participants : participants[i].id = participant_id
    ELSE 0

\* int(x / 32.0): the quotient truncated towards zero
IntDiv32(storage_gb) ==
    IF storage_gb >= 0 THEN storage_gb \div 32 ELSE 0 - ((0 - storage_gb) \div 32)

\* int(x / 32.0) with no lower limit
BareQuotient(storage_gb) == IntDiv32(storage_gb)

\* add_lottery_ticket: tickets = max(1, int(capacity / 32.0))
Tickets(storage_gb) == IF IntDiv32(storage_gb) > 1 THEN IntDiv32(storage_gb) ELSE 1

\* select_winner: weight = max(1, int(data['storage_gb'] / 32.0))
LotteryWeight(storage_gb) == IF IntDiv32(storage_gb) > 1 THEN IntDiv32(storage_gb) ELSE 1

\* PoWLottery.register_participant: an assignment to the dict, which keeps the
\* position of a key it already holds
register_participant(participants, participant_id, storage_gb) ==
    LET i == IndexOf(participants, participant_id)
    IN  IF i = 0 THEN Append(participants, Participant(participant_id, storage_gb))
        ELSE [participants EXCEPT ![i] = Participant(participant_id, storage_gb)]

\* PoWLottery.add_lottery_ticket: the tickets issued and the dict afterwards
add_lottery_ticket(participants, participant_id, block_height) ==
    LET i == IndexOf(participants, participant_id)
    IN  IF i = 0 THEN [result |-> 0, participants |-> participants]
        ELSE LET tickets == Tickets(participants[i].storage_gb)
             IN  [result |-> tickets,
                  participants |->
                      [participants EXCEPT
                          ![i].entries = @ + tickets,
                          ![i].last_entry_block = block_height]]

\* [participant_id] * weight
Repeat(x, n) == [k \in 1..n |-> x]

\* a pool that leaves out whoever has won before
RECURSIVE PoolWithoutWinners(_)
PoolWithoutWinners(participants) ==
    IF participants = <<>> THEN <<>>
    ELSE (IF Head(participants).wins > 0 /\ Len(participants) > 1 THEN <<>>
          ELSE Repeat(Head(participants).id,
                      LotteryWeight(Head(participants).storage_gb)))
         \o PoolWithoutWinners(Tail(participants))

\* the pool of select_winner: the entries in dict order, each weight times
RECURSIVE WeightedPool(_)
WeightedPool(participants) ==
    IF participants = <<>> THEN <<>>
    ELSE Repeat(Head(participants).id, LotteryWeight(Head(participants).storage_gb))
         \o WeightedPool(Tail(participants))

\* random.seed(int(sha256(str(block_hash)).hexdigest()[:16], 16)) followed by
\* random.choice(pool): the index CPython takes in a pool of n elements, for
\* the block hashes "h1", "h2", "h3" and n = 1, 2, ...
SeededChoice ==
    [
     h1 |-> <<0, 0, 0, 1, 1, 1, 1, 3, 3, 3, 3, 3, 3, 3, 3, 7, 7, 7, 7, 7, 7, 7, 7, 7, 7, 7, 7, 7, 7, 7, 7, 15, 15, 15>>,
     h2 |-> <<0, 0, 0, 1, 1, 1, 1, 2, 2, 2, 2, 2, 2, 2, 2, 4, 4, 4, 4, 4, 4, 4, 4, 4, 4, 4, 4, 4, 4, 4, 4, 8, 8, 8>>,
     h3 |-> <<0, 1, 2, 2, 4, 4, 4, 5, 5, 9, 9, 9, 9, 9, 9, 11, 11, 11, 11, 19, 19, 19, 19, 19, 19, 19, 19, 19, 19, 19, 19, 23, 23, 23>>
    ]

LotteryHashes == DOMAIN SeededChoice

random_choice(block_hash, pool) == pool[SeededChoice[block_hash][Len(pool)] + 1]

\* int(sha256(str(block_hash)).hexdigest()[:16], 16)
HashSeed(block_hash) == Sha256("seed", block_hash)

\* PoWLottery.select_winner: the seed the module-level generator of `random`
\* is left with, when `seed` is the one it had
select_winner_seeding(lot, block_hash, seed) ==
    IF lot.participants = <<>> THEN seed ELSE HashSeed(block_hash)

\* PoWLottery.select_winner: the winner and the instance afterwards
select_winner(lot, block_hash) ==
    IF lot.participants = <<>> THEN [result |-> "None", lottery |-> lot]
    ELSE LET pool == WeightedPool(lot.participants)
         IN  IF pool = <<>> THEN [result |-> "None", lottery |-> lot]
             ELSE LET winner == random_choice(block_hash, pool)
                      i == IndexOf(lot.participants, winner)
                  IN  [result |-> winner,
                       lottery |->
                          [participants |->
                               [lot.participants EXCEPT ![i].wins = @ + 1],
                           winners |->
                               IF winner \in Range(lot.winners) THEN lot.winners
                               ELSE Append(lot.winners, winner)]]

\* callers of the lottery
Farmers == {"Farmer_A", "Farmer_B"}
TicketHolders == Farmers \cup {"Farmer_C"}
StorageSizes == {10, 512}
BlockHeights == {1, 2}

SumWins(participants) ==
    SumSeq([i \in DOMAIN participants |-> participants[i].wins])

lotteryRest == <<ledgerVars, nodeVars, govVars, posVars, validatorVars, peerVars,
                 poolVars, syncVars, discoveryVars, voteVars, otherVars, now, tamperedAt,
                 applied>>

RegisterParticipantIn(instances) ==
    /\ \E l \in instances, participant_id \in Farmers, storage_gb \in StorageSizes :
        /\ lottery' = [lottery EXCEPT
                          ![l].participants =
                              register_participant(@, participant_id, storage_gb)]
        /\ lastCall' = [op |-> "register_participant", instance |-> l,
                        participant_id |-> participant_id, storage_gb |-> storage_gb,
                        before |-> lottery[l]]
    /\ UNCHANGED <<random_seed, lotteryRest>>

AddLotteryTicketIn(instances) ==
    /\ \E l \in instances, participant_id \in TicketHolders, block_height \in BlockHeights :
        LET i == IndexOf(lottery[l].participants, participant_id)
            call == add_lottery_ticket(lottery[l].participants, participant_id,
                                       block_height)
        IN  /\ i # 0 => lottery[l].participants[i].entries < MaxEntries
            /\ lottery' = [lottery EXCEPT ![l].participants = call.participants]
            /\ lastCall' = [op |-> "add_lottery_ticket", instance |-> l,
                            participant_id |-> participant_id,
                            before |-> lottery[l], result |-> call.result]
    /\ UNCHANGED <<random_seed, lotteryRest>>

SelectWinnerIn(instances, max_draws) ==
    /\ \E l \in instances, block_hash \in LotteryHashes :
        LET call == select_winner(lottery[l], block_hash)
        IN  /\ SumWins(lottery[l].participants) < max_draws
            /\ lottery' = [lottery EXCEPT ![l] = call.lottery]
            /\ random_seed' = [random_seed EXCEPT
                    ![l] = select_winner_seeding(lottery[l], block_hash, @)]
            /\ lastCall' = [op |-> "select_winner", instance |-> l,
                            block_hash |-> block_hash, before |-> lottery[l],
                            pool |-> WeightedPool(lottery[l].participants),
                            result |-> call.result]
    /\ UNCHANGED lotteryRest

\* one lottery
RegisterParticipant == RegisterParticipantIn({"lottery_1"})

AddLotteryTicket == AddLotteryTicketIn({"lottery_1"})

SelectWinner == SelectWinnerIn({"lottery_1"}, MaxDraws)

NextLottery == RegisterParticipant \/ AddLotteryTicket \/ SelectWinner

SpecLottery == Init /\ [][NextLottery]_vars

\* two lotteries on two nodes, each registering and drawing on its own
RegisterAnywhere == RegisterParticipantIn(Lotteries)

SelectAnywhere == SelectWinnerIn(Lotteries, MaxPairDraws)

NextLotteryPair == RegisterAnywhere \/ SelectAnywhere

SpecLotteryPair == Init /\ [][NextLotteryPair]_vars

----------------------------------------------------------------------------
\* PeerDiscovery: peers and their reputation

\* peers handed to add_peer: one near the floor, one near the cap
DiscoveredPeers ==
    {PeerInfo("Peer_1", 5, 0), PeerInfo("Peer_2", 95, 0)}
ReportedPeers == {"Peer_1", "Peer_2", "Peer_3"}

discoveryRest == <<ledgerVars, nodeVars, govVars, posVars, validatorVars, peerVars,
                   poolVars, syncVars, lotteryVars, voteVars, otherVars, now, tamperedAt,
                   applied>>

\* PeerDiscovery.add_peer(peer_info) for a peer among `peers`
AddPeerAmong(peers) ==
    /\ \E peer_info \in peers :
        /\ known_peers' = add_peer(known_peers, [peer_info EXCEPT !.last_seen = now])
        /\ peer_index' = add_peer_index(peer_index, known_peers, peer_info)
        /\ lastCall' = [op |-> "add_peer", peer_id |-> peer_info.peer_id,
                        result |-> peer_info.peer_id \notin DOMAIN known_peers]
    /\ UNCHANGED discoveryRest

AddPeer == AddPeerAmong(DiscoveredPeers)

UpdatePeerReputation ==
    /\ \E peer_id \in ReportedPeers, success \in BOOLEAN :
        /\ peer_id \in DOMAIN known_peers =>
              known_peers[peer_id].blocks_shared + known_peers[peer_id].failed_messages
                < MaxUpdates
        /\ known_peers' = update_peer_reputation(known_peers, peer_id, success, now)
        /\ lastCall' = [op |-> "update_peer_reputation", peer_id |-> peer_id,
                        success |-> success, before |-> known_peers]
    /\ UNCHANGED <<peer_index, discoveryRest>>

NextPeers == AddPeer \/ UpdatePeerReputation \/ Tick

SpecPeers == Init /\ [][NextPeers]_vars

----------------------------------------------------------------------------
\* PeerDiscovery: the registry and its address index, with peers that come
\* back under another port and peers that announce the port of another

AnnouncedPorts == {8001, 8002, 8003}

AnnouncedPeers ==
    {[PeerInfo(id, 100, 0) EXCEPT !.port = port] :
        id \in {"Peer_1", "Peer_2", "Peer_3"}, port \in AnnouncedPorts}

AnnouncePeer == AddPeerAmong(AnnouncedPeers)

\* PeerDiscovery.remove_peer(peer_id)
RemovePeer ==
    /\ \E peer_id \in ReportedPeers :
        /\ known_peers' = remove_peer(known_peers, peer_id)
        /\ peer_index' = remove_peer_index(peer_index, known_peers, peer_id)
        /\ lastCall' = [op |-> "remove_peer", peer_id |-> peer_id,
                        result |-> peer_id \in DOMAIN known_peers]
    /\ UNCHANGED discoveryRest

NextIndex == AnnouncePeer \/ RemovePeer

SpecIndex == Init /\ [][NextIndex]_vars

----------------------------------------------------------------------------
\* PoSValidator: slashing

\* the stake PoSValidatorNode credits its validator with (default 5000), or none
InitialStakes == {0, 5000}
SlashAmounts == {-1000, 0, 1000, 2500, 10000}

\* PoSValidator.apply_slashing(amount): the stake after the call
apply_slashing(staked, amount) == IF staked - amount > 0 THEN staked - amount ELSE 0

ApplySlashing ==
    /\ slashing_count < MaxSlashes
    /\ \E amount \in SlashAmounts :
        /\ total_staked' = apply_slashing(total_staked, amount)
        /\ lastCall' = [op |-> "apply_slashing", amount |-> amount,
                        staked_before |-> total_staked, count_before |-> slashing_count]
    /\ slashing_count' = slashing_count + 1
    /\ UNCHANGED <<ledgerVars, nodeVars, govVars, posVars, peerVars, poolVars, syncVars, extraVars,
                   now, tamperedAt, applied>>

InitSlash ==
    /\ NodeCore
    /\ MemoryPool(DefaultMaxSize)
    /\ \E initial_stake \in InitialStakes : PoSValidator(initial_stake)
    /\ GovernanceCouncil(SubSeq(CouncilCandidates, 1, MaxCouncil))
    /\ PoSConsensus(SubSeq(CouncilCandidates, 1, MaxCouncil))

NextSlash == ApplySlashing

SpecSlash == InitSlash /\ [][NextSlash]_vars

\* the council of five deciding proposals of every shape
NextExec == CreateAnyProposal \/ Vote \/ AllocateFunds

SpecExec == Init /\ [][NextExec]_vars

NextGov == CreateProposal \/ Vote \/ AllocateFunds \/ ProposeBlock \/ PoSVote \/ Tick

SpecGov == InitGov /\ [][NextGov]_vars

----------------------------------------------------------------------------
\* Properties of the ledger

Transfer(s, r, a) == Transaction("tx", 0, s, r, a, TRANSFER, NoData)

Addresses == {TREASURY, "Farmer_A", "Farmer_B", "SYSTEM"}

\* C1: a chain grown only by mine_block validates: every block after genesis
\* names its predecessor's hash and carries the hash of its own fields.
C1_MinedChainValidates ==
    /\ validate_chain(chain)
    /\ \A i \in 2..Len(chain) :
        /\ chain[i].previous_hash = chain[i - 1].hash
        /\ chain[i].hash = calculate_hash(chain[i])

C1_Witness ==
    /\ Len(chain) >= 3
    /\ lastCall = [op |-> "mine_block", result |-> "block"]

\* C2 (as claimed): once a field of a transaction in a stored block has been
\* changed, validate_chain fails.
C2_TamperDetected == tamperedAt # {} => ~validate_chain(chain)

\* C3 (as claimed): a block the node accepted from the network chains onto the
\* node's tip and carries the hash of its own fields.
C3_AcceptedBlockChainsAndHashes ==
    (lastCall.op \in {"validate_and_apply_block", "receive_block"} /\ lastCall.result)
        => /\ lastCall.block.previous_hash = get_latest_block(chain).hash
           /\ lastCall.block.hash = calculate_hash(lastCall.block)

\* C4: whatever transfers of non-negative amounts process_transactions applies,
\* in whatever order, no balance is negative.
C4_TransfersKeepBalancesNonNegative == \A a \in DOMAIN state : state[a] >= 0

C4_Witness ==
    /\ applied = 1
    /\ lastCall = [op |-> "process_transactions",
                   transactions |-> <<Transfer(TREASURY, "Farmer_A", 600000),
                                      Transfer(TREASURY, "Farmer_B", 500000)>>]
    /\ state[TREASURY] = 400000
    /\ "Farmer_B" \notin DOMAIN state

\* C5 (as claimed): whatever transactions of any kind are applied, no balance is
\* negative.
C5_NoBalanceNegativeForAnyKind ==
    \A a \in Addresses : get_balance(state, a) >= 0

\* C6: genesis credits the treasury with 1,000,000 and nobody else; a single
\* transfer the sender can afford moves exactly its amount from sender to
\* receiver and touches no other balance; one the sender cannot afford changes
\* no balance.
C6_GenesisBalances ==
    \A a \in Addresses :
        get_balance(state, a) = IF a = TREASURY THEN GenesisAmount ELSE 0

C6_TransferStep ==
    \A tx \in TransferTxs :
        (/\ applied' = applied + 1
         /\ lastCall' = [op |-> "process_transactions", transactions |-> <<tx>>])
        => IF get_balance(state, tx.sender) >= tx.amount
           THEN \A a \in Addresses :
                    get_balance(state', a) =
                        get_balance(state, a)
                            - (IF a = tx.sender THEN tx.amount ELSE 0)
                            + (IF a = tx.receiver THEN tx.amount ELSE 0)
           ELSE state' = state

C6_TransferMovesExactlyAmount == C6_GenesisBalances /\ [][C6_TransferStep]_vars

C6_Witness ==
    /\ applied = 2
    /\ lastCall = [op |-> "process_transactions",
                   transactions |-> <<Transfer("Farmer_A", "Farmer_B", 600000)>>]
    /\ get_balance(state, TREASURY) = 500000
    /\ get_balance(state, "Farmer_A") = 500000
    /\ get_balance(state, "Farmer_B") = 0

----------------------------------------------------------------------------
\* Properties of the council

FullCouncil == Len(council_members) = MaxCouncil

AllMembersVoted(proposal) ==
    council_members # <<>> /\ Range(council_members) \subseteq DOMAIN proposal.votes

\* C7 (as claimed): in a 5-member council a proposal holding exactly 3 yes votes,
\* the other two members having voted no or not at all, is approved (or executed).
C7_ThreeYesApproves ==
    \A id \in DOMAIN proposals :
        (FullCouncil /\ YesVotes(proposals[id]) = 3)
            => proposals[id].status \in {APPROVED, EXECUTED}

\* C8: once every council member has voted the proposal is no longer in voting:
\* it is executed if it holds at least 3 yes votes and rejected otherwise.
C8_FinalizedWhenAllVoted ==
    \A id \in DOMAIN proposals :
        AllMembersVoted(proposals[id])
            => /\ proposals[id].status \in {EXECUTED, REJECTED}
               /\ proposals[id].status = EXECUTED <=> YesVotes(proposals[id]) >= 3

C8_Witness ==
    \E id \in DOMAIN proposals :
        /\ FullCouncil
        /\ AllMembersVoted(proposals[id])
        /\ YesVotes(proposals[id]) = 2
        /\ proposals[id].status = REJECTED
        /\ now < proposals[id].voting_deadline

\* C9 (as claimed, in its weakest reading): a proposal whose deadline has passed
\* is out of voting at the latest when the council is next asked to vote on it.
C9_VoteAfterDeadlineStep ==
    \A n \in 1..MaxProposals, voter_id \in Range(council_members), vote \in BOOLEAN :
        (/\ ProposalId(n) \in DOMAIN proposals
         /\ now >= proposals[ProposalId(n)].voting_deadline
         /\ VoteOnProposal(ProposalId(n), voter_id, vote))
        => proposals'[ProposalId(n)].status # VOTING

C9_ClosedProposalLeavesVoting == [][C9_VoteAfterDeadlineStep]_vars

\* C10: a vote on an unknown proposal, by a voter who is neither treasurer nor
\* council member, or after the window closed (deadline passed or status no
\* longer voting) returns false and changes nothing of the governance state.
C10_RefusedVoteStep ==
    (/\ lastCall'.op \in {"vote_on_proposal", "PoSConsensus.vote_on_proposal"}
     /\ lastCall'.outside_rules)
        => /\ lastCall'.result = FALSE
           /\ UNCHANGED <<govVars, posVars>>

C10_RefusedVoteChangesNothing == [][C10_RefusedVoteStep]_vars

C10_Witness ==
    /\ lastCall = [op |-> "vote_on_proposal", result |-> FALSE, outside_rules |-> TRUE]
    /\ \E id \in DOMAIN proposals :
        /\ proposals[id].status = VOTING
        /\ proposals[id].votes # <<>>
        /\ now >= proposals[id].voting_deadline

\* C11 (as claimed): a vote on an existing proposal in its voting window by the
\* treasurer or a council member is recorded and the call returns true.
C11_VoteWithinRulesAccepted ==
    (/\ lastCall.op \in {"vote_on_proposal", "PoSConsensus.vote_on_proposal"}
     /\ ~lastCall.outside_rules)
        => lastCall.result = TRUE

\* what the execution of a treasury_spending does to the treasury, for the
\* allocation the change map names; complete_only asks it only of a change map
\* that names a recipient and a non-zero amount (any other leaves the treasury)
SpendingApplied(changes, complete_only) ==
    LET purpose == IF complete_only /\ changes.purpose = "None"
                   THEN "governance_approved" ELSE changes.purpose
        due == /\ purpose \in DOMAIN treasury.allocations
               /\ treasury.allocations[purpose] >= changes.amount
               /\ complete_only =>
                    (changes.recipient \notin {"None", ""} /\ changes.amount \notin {NoneNum, 0})
    IN  IF due
        THEN /\ treasury'.allocations = Put(treasury.allocations, purpose,
                                            treasury.allocations[purpose] - changes.amount)
             /\ treasury'.balance = treasury.balance
        ELSE treasury' = treasury

ExecutionStep(complete_only) ==
    \A id \in DOMAIN proposals :
        (proposals[id].status = VOTING /\ proposals'[id].status # VOTING) =>
            LET changes == proposals[id].proposed_changes
                type == proposals[id].proposal_type
            IN  IF proposals'[id].status # EXECUTED
                THEN reward_config' = reward_config /\ treasury' = treasury
                ELSE IF type = REWARD_ADJUSTMENT
                THEN /\ \A f \in RewardFields :
                        reward_config'[f] = IF f \in DOMAIN changes THEN changes[f]
                                            ELSE reward_config[f]
                     /\ treasury' = treasury
                ELSE IF type = TREASURY_SPENDING
                THEN reward_config' = reward_config /\ SpendingApplied(changes, complete_only)
                ELSE reward_config' = reward_config /\ treasury' = treasury

NeverLeftApproved == \A id \in DOMAIN proposals : proposals[id].status # APPROVED

\* C12 (as claimed): an approved proposal is executed within the finalizing
\* call; a reward_adjustment overwrites exactly the reward fields its change map
\* names; a treasury_spending debits the named allocation by the amount whenever
\* the allocation is at least the amount and otherwise leaves the treasury.
C12_ExecutionAsClaimed == []NeverLeftApproved /\ [][ExecutionStep(FALSE)]_vars

\* C12 (amended): as above, but a treasury_spending debits only when its change
\* map names a recipient and a non-zero amount (the allocation being the named
\* purpose, or governance_approved when none is named); one that lacks either
\* leaves the treasury unchanged.
C12_ExecutionOfCompleteChanges == []NeverLeftApproved /\ [][ExecutionStep(TRUE)]_vars

\* an executed spending that debited its allocation, an executed spending that
\* found too little allocated, and an executed reward adjustment
C12_Witness ==
    \E id \in DOMAIN proposals :
        /\ proposals[id].status = EXECUTED
        /\ proposals[id].proposal_type = TREASURY_SPENDING
        /\ proposals[id].proposed_changes.recipient = "Farmer_A"
        /\ "grants" \in DOMAIN treasury.allocations
        /\ treasury.allocations["grants"] = 0
        /\ Len(treasury.spending_history) = 1

\* C13: neither council ever holds more than 5 members: GovernanceCouncil keeps
\* the first 5 it is given; add_council_member returns false and changes nothing
\* at 5 members or for a member already present; remove_council_member returns
\* false and changes nothing for an absent member.
CouncilsAtMostFive ==
    /\ Cardinality(council) <= 5
    /\ Len(council_members) <= 5
    /\ council_members = SubSeq(CouncilCandidates, 1, Len(council_members))

C13_RefusedMembershipStep ==
    /\ (lastCall'.op = "add_council_member" /\ (lastCall'.full \/ lastCall'.present))
            => (lastCall'.result = FALSE /\ UNCHANGED posVars)
    /\ (lastCall'.op = "remove_council_member" /\ ~lastCall'.present)
            => (lastCall'.result = FALSE /\ UNCHANGED posVars)

C13_CouncilAtMostFive == []CouncilsAtMostFive /\ [][C13_RefusedMembershipStep]_vars

C13_Witness ==
    /\ Cardinality(council) = 5
    /\ Len(council_members) = 5
    /\ lastCall = [op |-> "add_council_member", result |-> FALSE, full |-> TRUE,
                   present |-> FALSE]

\* C14 (as claimed): every apply_slashing call leaves the stake at
\* max(0, stake - amount) and the slash counter one higher; the stake is never
\* negative and no slashing increases it.
C14_SlashingNeverIncreasesStake ==
    /\ total_staked >= 0
    /\ lastCall.op = "apply_slashing" =>
        /\ total_staked = apply_slashing(lastCall.staked_before, lastCall.amount)
        /\ slashing_count = lastCall.count_before + 1
        /\ total_staked <= lastCall.staked_before

\* C17 (as claimed): select_propagation_targets returns min(fanout, candidates)
\* distinct peers taken from the candidates other than the excluded one, and
\* after every pick each remaining candidate still carries the weight
\* max(0.1, its own reputation).
C17_WeightsFollowReputation ==
    lastCall.op = "select_propagation_targets" =>
        LET candidates == WithoutPeer(lastCall.available_peers, lastCall.exclude_peer)
            selected == Selected(lastCall.run)
        IN  /\ Len(selected) = IF max_fanout < Len(candidates) THEN max_fanout
                                ELSE Len(candidates)
            /\ Cardinality(Range(selected)) = Len(selected)
            /\ Range(selected) \subseteq {candidates[i].peer_id : i \in DOMAIN candidates}
            /\ \A n \in DOMAIN lastCall.run :
                 LET step == lastCall.run[n]
                 IN  \A i \in DOMAIN step.targets :
                        step.weights[i] = Weight(step.targets[i])

\* C15 (as claimed): a message is queued for propagation at most once per dedup
\* hash, and a submission of a message already seen, or of one with ttl <= 0,
\* is propagated to no peer.
C15_DuplicateReachesNoPeer ==
    /\ \A i, j \in DOMAIN message_queue :
            MessageHash(message_queue[i]) = MessageHash(message_queue[j]) => i = j
    /\ \A i \in DOMAIN message_queue : message_queue[i].ttl > 0
    /\ (/\ lastCall.op = "broadcast_message"
        /\ (lastCall.duplicate \/ lastCall.message.ttl <= 0)) => lastCall.result = 0
    /\ (/\ lastCall.op = "receive_message"
        /\ (lastCall.duplicate \/ lastCall.message.ttl <= 0)) => lastCall.targets = {}

\* C16: the peers a received message is relayed to never include the peer the
\* message names as its sender.
C16_RelayNeverReturnsToSender ==
    lastCall.op = "receive_message" => lastCall.message.sender_id \notin lastCall.targets

\* a message relayed to other peers while its sender is connected and alive
C16_Witness ==
    /\ lastCall.op = "receive_message"
    /\ lastCall.relayed
    /\ lastCall.targets # {}
    /\ lastCall.message.sender_id \in DOMAIN connected_peers
    /\ is_alive(connected_peers[lastCall.message.sender_id], now)

\* C18 (as claimed): add_transaction and add_block each return false and change
\* nothing when the pool is at its capacity or holds the item already, so that
\* neither table ever holds more than max_size items.
C18_PoolTablesBounded ==
    /\ Cardinality(DOMAIN mempool_transactions) <= max_size
    /\ Cardinality(DOMAIN pending_blocks) <= max_size
    /\ (/\ lastCall.op \in {"add_transaction", "add_block"}
        /\ (lastCall.full \/ lastCall.held)) => lastCall.result = FALSE

\* C19 (as claimed): a transaction id already in the seen-set is refused by
\* add_transaction, also after remove_transaction took the transaction out.
C19_SeenTransactionRefused ==
    (lastCall.op = "add_transaction" /\ lastCall.seen) => lastCall.result = FALSE

\* C20 (as claimed): under any interleaving of threads at most one of them is
\* between a start_sync that returned true and its finish_sync, and whoever
\* is there has the flag set.
C20_AtMostOneSyncHolder ==
    /\ Cardinality({c \in Callers : callers[c] = "syncing"}) <= 1
    /\ (\E c \in Callers : callers[c] = "syncing") => sync_in_progress

\* what the rule of the control loop gives for difficulty d and these samples
Min(a, b) == IF a < b THEN a ELSE b

Max(a, b) == IF a > b THEN a ELSE b

RuleResult(d, samples) ==
    IF 10 * SumSeq(samples) < 8 * TARGET_BLOCK_TIME * Len(samples)
    THEN Min(d + 1, 32)
    ELSE IF 10 * SumSeq(samples) > 12 * TARGET_BLOCK_TIME * Len(samples)
    THEN Max(d - 1, 1)
    ELSE d

\* a direct calculation from at least min_samples samples follows the rule
CalculationFollowsRule(min_samples) ==
    (/\ lastCall # NoCall
     /\ lastCall.op = "calculate_new_difficulty"
     /\ Len(lastCall.actual_block_times) >= min_samples)
    => lastCall.result = RuleResult(lastCall.current_difficulty,
                                    lastCall.actual_block_times)

\* the miner's difficulty is within [1, 32]
DifficultyWithinLimits == mining_difficulty \in 1..32

\* a block mined once 50 samples exist recalculates by the rule from the
\* last 50 samples, and the difficulty moves by at most 1
C21_RecalculationStep ==
    [][block_times' # block_times =>
        /\ mining_difficulty' - mining_difficulty \in {-1, 0, 1}
        /\ mining_difficulty' =
             IF Len(block_times') >= 50
             THEN RuleResult(mining_difficulty,
                             SubSeq(block_times', Len(block_times') - 49,
                                    Len(block_times')))
             ELSE mining_difficulty]_vars

Holdings(lot) == {<<p.id, p.storage_gb>> : p \in Range(lot.participants)}

\* two draws one after the other, on lotteries related by same_instance, with
\* the same block hash and the same participant set, name the same winner
ConsecutiveDrawsAgree(same_instance) ==
       (/\ lastCall # NoCall
        /\ lastCall.op = "select_winner"
        /\ lastCall'.op = "select_winner"
        /\ (lastCall'.instance = lastCall.instance) = same_instance
        /\ lastCall'.block_hash = lastCall.block_hash
        /\ Holdings(lastCall'.before) = Holdings(lastCall.before))
       => lastCall'.result = lastCall.result

\* C22: select_winner repeated on one lottery with the same block hash and an
\* unchanged participant set returns the same winner, whatever the earlier
\* draw did to the win counters and the winners list.
C22_RepeatedDrawSameWinner == [][ConsecutiveDrawsAgree(TRUE)]_vars

\* C22 witness: a second draw on the same hash has been made on a lottery of
\* two participants whose first draw left a win on record.
C22_Witness ==
    /\ lastCall # NoCall
    /\ lastCall.op = "select_winner"
    /\ Len(lastCall.before.participants) = 2
    /\ lastCall.before.winners = <<lastCall.result>>
    /\ SumWins(lastCall.before.participants) = 1
    /\ SumWins(lottery["lottery_1"].participants) = 2

\* C23 (as claimed): two lotteries holding the same participant set,
\* registered in any order, return the same winner for the same block hash.
C23_InstancesAgree == [][ConsecutiveDrawsAgree(FALSE)]_vars

\* C24 (as claimed): register_participant for an id already registered with
\* the same capacity leaves the participant's record and the rest of the
\* lottery as they were.
C24_ReRegistrationChangesNothing ==
    (/\ lastCall # NoCall
     /\ lastCall.op = "register_participant"
     /\ <<lastCall.participant_id, lastCall.storage_gb>> \in Holdings(lastCall.before))
    => lottery[lastCall.instance] = lastCall.before

\* max(1, floor(capacity / 32)), for the capacities in use (none is negative)
TicketsFor(capacity) == Max(1, capacity \div 32)

Occurrences(pool, x) == Cardinality({i \in DOMAIN pool : pool[i] = x})

\* the participants with one of their counters taken out of the comparison
Without(participants, i, field) ==
    [k \in DOMAIN participants |->
        IF k = i THEN [participants[k] EXCEPT ![field] = 0] ELSE participants[k]]

TicketCallAsClaimed ==
    LET before == lastCall.before.participants
        after == lottery[lastCall.instance].participants
        i == IndexOf(before, lastCall.participant_id)
    IN  IF i = 0
        THEN lastCall.result = 0 /\ lottery[lastCall.instance] = lastCall.before
        ELSE /\ lastCall.result = TicketsFor(before[i].storage_gb)
             /\ lastCall.result = Occurrences(WeightedPool(before), before[i].id)
             /\ after[i].entries = before[i].entries + lastCall.result
             /\ after[i].wins = before[i].wins
             /\ after[i].storage_gb = before[i].storage_gb
             /\ \A k \in DOMAIN before : k # i => after[k] = before[k]
             /\ lottery[lastCall.instance].winners = lastCall.before.winners

DrawAsClaimed ==
    LET before == lastCall.before.participants
        after == lottery[lastCall.instance].participants
        i == IndexOf(before, lastCall.result)
    IN  /\ \A k \in DOMAIN before :
            Occurrences(lastCall.pool, before[k].id) = TicketsFor(before[k].storage_gb)
        /\ Len(lastCall.pool) = SumSeq([k \in DOMAIN before |->
                                           TicketsFor(before[k].storage_gb)])
        /\ IF before = <<>>
           THEN lastCall.result = "None" /\ lottery[lastCall.instance] = lastCall.before
           ELSE /\ i # 0
                /\ after[i].wins = before[i].wins + 1
                /\ Without(after, i, "wins") = Without(before, i, "wins")

\* C25: a registered participant is in the pool max(1, floor(capacity/32))
\* times, the number add_lottery_ticket returns and adds to its entries (16
\* for 512 GB, 1 for 10 GB; 0 and no change for an unregistered id);
\* select_winner returns a registered participant and adds one to its wins and
\* to no other counter, and returns none, changing nothing, without
\* participants.  The lottery not called is untouched.
C25_TicketWeighting ==
    /\ TicketsFor(512) = 16 /\ TicketsFor(10) = 1
    /\ lastCall # NoCall =>
        /\ lastCall.op = "add_lottery_ticket" => TicketCallAsClaimed
        /\ lastCall.op = "select_winner" => DrawAsClaimed
    /\ lottery["lottery_2"] = [participants |-> <<>>, winners |-> <<>>]

\* C25 witness: tickets were issued to the 10 GB participant of a lottery that
\* also holds a 512 GB participant with a win on record.
C25_Witness ==
    /\ lastCall # NoCall
    /\ lastCall.op = "add_lottery_ticket"
    /\ lastCall.result = 1
    /\ \E p \in Range(lottery["lottery_1"].participants) :
        p.storage_gb = 512 /\ p.wins > 0 /\ p.entries = 16

\* C26 (as claimed): every block appended by block production carries a
\* non-empty set of approving validators and a selected lottery winner, and
\* the block announced last is already in the chain.
C26_ProducedBlocksApproved ==
    /\ \A i \in 2..Len(chain) :
        /\ chain[i].validators # <<>>
        /\ chain[i].pow_lottery_winner # "None"
    /\ \A i \in DOMAIN message_queue :
        message_queue[i].message_type = BLOCK_ANNOUNCE
            => message_queue[i].payload \in Range(chain)

\* the capacity a storage_pledge transaction asks for (32 when it names none)
Requested(tx) == IF tx.data.capacity_gb = NoneNum THEN 32 ELSE tx.data.capacity_gb

\* C27 (as claimed): after a batch is applied, a sender's pledge is the one of
\* its last storage_pledge transaction, active, with capacity
\* max(32, requested capacity); every pledge on record is active, belongs to
\* the address it is filed under and has at least 32 GB.
C27_PledgeUpsertWithFloor ==
    /\ \A a \in DOMAIN storage_pledges :
        /\ storage_pledges[a].pledger = a
        /\ storage_pledges[a].is_active
        /\ storage_pledges[a].capacity_gb >= 32
    /\ (lastCall # NoCall /\ lastCall.op = "process_transactions") =>
        LET batch == lastCall.transactions
            pledged == {i \in DOMAIN batch : batch[i].tx_type = STORAGE_PLEDGE}
        IN  pledged # {} =>
              LET last == CHOOSE i \in pledged : \A j \in pledged : j <= i
              IN  /\ batch[last].sender \in DOMAIN storage_pledges
                  /\ storage_pledges[batch[last].sender].capacity_gb
                        = Max(32, Requested(batch[last]))

\* C28: update_peer_reputation on a known peer raises the reputation by 0.05
\* up to 1.0 and counts one more shared block on success, lowers it by 0.1
\* down to 0.0 and counts one more failure otherwise, and touches no other
\* peer; on an unknown peer it changes nothing; reputations stay in [0, 1].
C28_ReputationUpdates ==
    /\ \A p \in DOMAIN known_peers : known_peers[p].reputation \in 0..100
    /\ (lastCall # NoCall /\ lastCall.op = "update_peer_reputation") =>
        LET before == lastCall.before
            p == lastCall.peer_id
        IN  IF p \notin DOMAIN before THEN known_peers = before
            ELSE /\ DOMAIN known_peers = DOMAIN before
                 /\ \A q \in DOMAIN before : q # p => known_peers[q] = before[q]
                 /\ IF lastCall.success
                    THEN /\ known_peers[p].reputation = Min(100, before[p].reputation + 5)
                         /\ known_peers[p].blocks_shared = before[p].blocks_shared + 1
                         /\ known_peers[p].failed_messages = before[p].failed_messages
                    ELSE /\ known_peers[p].reputation = Max(0, before[p].reputation - 10)
                         /\ known_peers[p].failed_messages = before[p].failed_messages + 1
                         /\ known_peers[p].blocks_shared = before[p].blocks_shared

\* C28 witness: a failure was reported for a peer whose reputation was below
\* the step, with another peer known.
C28_Witness ==
    /\ lastCall # NoCall
    /\ lastCall.op = "update_peer_reputation"
    /\ ~lastCall.success
    /\ lastCall.peer_id \in DOMAIN lastCall.before
    /\ lastCall.before[lastCall.peer_id].reputation \in 1..9
    /\ Cardinality(DOMAIN known_peers) = 2

\* C29: the chain starts with the genesis block (height 0, previous_hash "0"),
\* the block at position i has height i, and every step keeps the blocks
\* already in the chain, in place and unchanged.
C29_ChainAppendOnly ==
    /\ [](/\ chain[1] = GenesisBlock(0)
          /\ chain[1].index = 0
          /\ chain[1].previous_hash = <<"0">>
          /\ \A i \in DOMAIN chain : chain[i].index = i - 1)
    /\ [][/\ Len(chain') >= Len(chain)
          /\ SubSeq(chain', 1, Len(chain)) = chain]_vars

\* C29 witness: blocks were mined and a block from the network was applied
\* afterwards.
C29_Witness ==
    /\ Len(chain) >= 3
    /\ lastCall # NoCall
    /\ lastCall.op = "validate_and_apply_block"
    /\ lastCall.result

\* C30 (as claimed): however the calls of several threads interleave, a
\* proposal is executed at most once: the parameter history and the treasury's
\* spending history hold at most one record per proposal.
C30_FinalizedAtMostOnce ==
    /\ Len(parameter_history) <= Cardinality(DOMAIN proposals)
    /\ Len(treasury.spending_history) <= Cardinality(DOMAIN proposals)

\* C31 (as claimed): a message received for the first time with ttl > 1 is
\* accepted and stands in the propagation queue with its ttl lowered by one;
\* one whose ttl falls to 0 is accepted and not relayed.
C31_FirstReceiptIsQueued ==
    (/\ lastCall # NoCall
     /\ lastCall.op = "receive_message"
     /\ ~lastCall.duplicate
     /\ lastCall.message.ttl >= 1)
    => /\ lastCall.result
       /\ IF lastCall.message.ttl > 1
          THEN /\ lastCall.relayed
               /\ [lastCall.message EXCEPT !.ttl = @ - 1] \in Range(message_queue)
          ELSE ~lastCall.relayed /\ lastCall.targets = {}

\* C33 (as claimed): the difficulty is recalculated once every 50 mined
\* blocks: it changes only with a block whose number is a multiple of 50.
C33_ChangesOnlyEveryFiftyBlocks ==
    [][mining_difficulty' # mining_difficulty
        => /\ block_times' # block_times
           /\ Len(block_times') % DIFFICULTY_ADJUSTMENT_BLOCKS = 0]_vars

\* the threads that passed the is_mining test and have not returned
Outstanding == {c \in MineCallers : mining[c].pc # "idle"}

\* C35 (as claimed): a node never has two mining attempts outstanding, a call
\* that finds one outstanding returns no block and leaves the chain alone, and
\* once every call has returned the node is not marked as mining.
C35_OneMiningAttempt ==
    /\ Cardinality(Outstanding) <= 1
    /\ (Outstanding = {}) => ~is_mining
    /\ (lastCall # NoCall /\ lastCall.op = "mine_block" /\ lastCall.refused)
         => lastCall.result = "None"

\* the last n distinct elements of a sequence
RECURSIVE RecentDistinct(_, _)
RecentDistinct(seq, n) ==
    IF n = 0 \/ seq = <<>> THEN {}
    ELSE LET newest == seq[Len(seq)]
             older == SelectSeq(SubSeq(seq, 1, Len(seq) - 1), LAMBDA x : x # newest)
         IN  {newest} \cup RecentDistinct(older, n - 1)

\* C36 (as claimed): the history holds at most max_history hashes, and each of
\* the max_history most recently seen messages is in it (the oldest are the
\* ones evicted), so should_propagate still refuses each of them.
C36_RecentMessagesStayRefused ==
    gossip # NoInstance =>
        /\ Cardinality(gossip.message_history) <= gossip.max_history
        /\ RecentDistinct(gossip.seen, gossip.max_history) \subseteq gossip.message_history
        /\ \A m \in HistoryMessages :
             MessageHash(m) \in RecentDistinct(gossip.seen, gossip.max_history)
                => ~should_propagate(gossip.message_history, m)

\* the last call offered a transaction whose sender holds less than its amount
UnderfundedOffer(ops) ==
    /\ lastCall # NoCall
    /\ lastCall.op \in ops
    /\ lastCall.balance < lastCall.transaction.amount

\* the last call reported rejection and left the pending list, the mempool
\* and the balances as they were
RejectedWithoutTrace ==
    /\ ~lastCall.result
    /\ pending_transactions = lastCall.pending_before
    /\ mempool_transactions = lastCall.pool_before
    /\ state = lastCall.state_before

\* C37 (as claimed): no admission path admits a transaction whose sender's
\* balance is below its amount: Blockchain.add_transaction and
\* FCUNode.receive_transaction both report rejection and change neither the
\* pending list, the mempool nor any balance.
C37_UnderfundedNeverAdmitted ==
    UnderfundedOffer({"Blockchain.add_transaction", "receive_transaction"})
        => RejectedWithoutTrace

\* C38 (as claimed): whenever validate_and_apply_block returns false, the
\* chain, the balances and the pending transaction list are exactly as they
\* were before the call, also when the failure comes part-way through the
\* block's transactions.
C38_FailedBlockLeavesLedger ==
    [][(lastCall'.op = "validate_and_apply_block" /\ ~lastCall'.result)
        => UNCHANGED ledgerVars]_vars

\* C39 (as claimed): after any sequence of add_peer and remove_peer every
\* host:port entry of the address index names a peer of the registry whose
\* current host:port is the entry's key.
C39_IndexMatchesRegistry ==
    \A key \in DOMAIN peer_index :
        /\ peer_index[key] \in DOMAIN known_peers
        /\ AddressKey(known_peers[peer_index[key]]) = key

\* the yes votes on a block proposal cast by the treasurer or a current
\* council member
YesVotesOfMembers(block_hash) ==
    LET votes == pending_proposals[block_hash].votes
    IN  {v \in DOMAIN votes : votes[v] /\ v \in council \cup {TREASURER_ID}}

\* C40 (as claimed): the yes votes is_proposal_approved counts toward the
\* threshold of 3 come only from the treasurer and the current council
\* members: a proposal is approved only while 3 of them have voted yes.
C40_ApprovalCountsCurrentMembers ==
    \A block_hash \in DOMAIN pending_proposals :
        is_proposal_approved(pending_proposals, council, block_hash)
            => Cardinality(YesVotesOfMembers(block_hash)) >= MinApproval

\* C34 (as claimed): select_winner uses no shared random state: a call leaves
\* the generator of the `random` module, from which every other operation of
\* the process draws, as it found it.
C34_SelectWinnerLeavesGenerator ==
    [][lastCall'.op = "select_winner" => random_seed' = random_seed]_vars

\* no node has accepted the same message twice
AcceptedAtMostOnce ==
    \A n \in NetNodes :
        \A i, j \in DOMAIN network.accepted[n] :
            i # j => network.accepted[n][i].hash # network.accepted[n][j].hash

\* no node has accepted a message more hops from its origin than its ttl
AcceptedWithinTtl ==
    \A n \in NetNodes :
        \A i \in DOMAIN network.accepted[n] :
            network.accepted[n][i].hops <= network.accepted[n][i].origin_ttl

\* in the end no copy of a message is left to deliver
GossipQuiesces == <>[](network.wire = {})

\* C32 (as claimed): in a network of nodes relaying through receive_message
\* each node accepts a message (same dedup hash) at most once and no node
\* accepts it more than ttl hops from its origin.
C32_AcceptedOnceWithinTtl == AcceptedAtMostOnce /\ AcceptedWithinTtl

====
